---------------------------- MODULE Spec2Model ----------------------------
(***************************************************************************)
(* Layout extraction (PDFParser) and in-place reconstruction (PDFBuilder)  *)
(* of PaperRadar.                                                          *)
(*                                                                         *)
(* Units.  Page coordinates are integer points.  Font sizes are kept in    *)
(* half points (the search step of _fit_text_to_box is 0.5pt), and the     *)
(* heights that depend on the leading 1.3 * size are kept in twentieths of *)
(* a point (1.3 * (s/2) = 13*s/20), so every comparison of the code is an  *)
(* exact integer comparison here.  Texts are sequences of one-character    *)
(* strings.  Python's None is the empty sequence << >>.                    *)
(***************************************************************************)
EXTENDS Integers, Sequences, FiniteSets, TLC

VARIABLES
    pdf,        \* the input document of PDFParser.parse: a sequence of pages
    parsed,     \* parse: the list `pages` of PageLayout built so far
    page_index, \* parse: the loop variable of the page loop
    block_counter, \* parse: the running block id counter
    base_size,  \* parse: the most frequent span size of the document
    layout,     \* build: doc_layout["pages"]
    pc,         \* position of the running call
    pi,         \* build: 1-based position of the page being rendered
    bk,         \* _render_page: 1-based position of the block being rendered
    pagesize,   \* canvas: the current page size
    cur,        \* canvas: content of the open page
    gstate,     \* canvas: current clip rectangle and the saved-state stack
    fit,        \* _fit_text_to_box: its locals while the size search runs
    out,        \* canvas: pages emitted by showPage
    buffer,     \* build: the bytes returned (the saved pages), << >> before
    blocks,     \* _merge_text_blocks called on its own: the argument
    merged,     \* _merge_text_blocks called on its own: the result
    model,      \* LayoutAnalyzer.model: "None" until load_model sets it
    processor,  \* LayoutAnalyzer.processor: "None" until load_model sets it
    cblocks,    \* classify_blocks: the argument `blocks`
    attempt,    \* classify_blocks: the loop variable of the retry loop
    classes,    \* classify_blocks: the list returned, << >> before
    hblock,     \* the block the text heuristics are called with on their own
    is_math,    \* the result of _is_math_block(hblock), "none" before
    is_formula, \* the result of _is_pure_formula(text of hblock), "none" before
    hprocessed, \* the result of _process_text_block(hblock), << >> before
    tasks,      \* the Task table, with the position of each task's coroutine
    environ,    \* os.environ: the three OPENAILIKED_ variables
    _client_semaphores, \* routes: the free permits of each client's semaphore
    _queue      \* routes: ids of the uploaded tasks that have not started

vars == <<pdf, parsed, page_index, block_counter, base_size, layout, pc, pi, bk,
          pagesize, cur, gstate, fit, out, buffer, blocks, merged, model, processor,
          cblocks, attempt, classes, hblock, is_math, is_formula, hprocessed,
          tasks, environ, _client_semaphores, _queue>>

parseVars == <<pdf, parsed, page_index, block_counter, base_size, model, processor>>
canvasVars == <<pagesize, cur, gstate, fit, out, buffer>>
mergeVars == <<blocks, merged>>
classVars == <<cblocks, attempt, classes>>
heurVars == <<hblock, is_math, is_formula, hprocessed>>
serveVars == <<tasks, environ, _client_semaphores, _queue>>

-----------------------------------------------------------------------------
(* Generic helpers *)

Min(a, b) == IF a < b THEN a ELSE b
Max(a, b) == IF a > b THEN a ELSE b
Abs(a) == IF a < 0 THEN -a ELSE a

\* the text of n characters c
Rep(c, n) == [i \in 1..n |-> c]

\* str.startswith / str.endswith / in
StartsWith(s, p) == Len(s) >= Len(p) /\ SubSeq(s, 1, Len(p)) = p
EndsWith(s, p) == Len(s) >= Len(p) /\ SubSeq(s, Len(s) - Len(p) + 1, Len(s)) = p
Contains(s, p) == \E i \in 1..(Len(s) - Len(p) + 1) : SubSeq(s, i, i + Len(p) - 1) = p

\* Python slice text[a:-b] for a, b > 0
Slice(s, a, b) == SubSeq(s, a + 1, Len(s) - b)

\* rectangles are <<x0, y0, x1, y1>>
Area(r) == (r[3] - r[1]) * (r[4] - r[2])
Inter(r, z) == <<Max(r[1], z[1]), Max(r[2], z[2]), Min(r[3], z[3]), Min(r[4], z[4])>>
HasOverlap(r, z) == Inter(r, z)[1] < Inter(r, z)[3] /\ Inter(r, z)[2] < Inter(r, z)[4]
OverlapArea(r, z) == IF HasOverlap(r, z) THEN Area(Inter(r, z)) ELSE 0
Inside(r, outer) == r[1] >= outer[1] /\ r[2] >= outer[2] /\ r[3] <= outer[3] /\ r[4] <= outer[4]
Expand(r, d) == <<r[1] - d, r[2] - d, r[3] + d, r[4] + d>>

-----------------------------------------------------------------------------
(* PDFBuilder: pure parts *)

\* the semantic tags of _render_text_block
H1Open == <<"<", "h", "1", ">">>
H1Close == <<"<", "/", "h", "1", ">">>
H2Open == <<"<", "h", "2", ">">>
H2Close == <<"<", "/", "h", "2", ">">>
H3Open == <<"<", "h", "3", ">">>
H3Close == <<"<", "/", "h", "3", ">">>
CaptionOpen == <<"<", "c", "a", "p", "t", "i", "o", "n", ">">>
CaptionClose == <<"<", "/", "c", "a", "p", "t", "i", "o", "n", ">">>

\* text = block.get("rewritten_text") or block.get("text", "")
BlockText(block) ==
    IF block.rewritten_text # << >> THEN block.rewritten_text ELSE block.text

\* the closing tag cut one character short
TagStyleShortCut(block) ==
    LET text == BlockText(block) IN
    IF StartsWith(text, H1Open) /\ EndsWith(text, H1Close)
        THEN [style |-> "h1", text |-> Slice(text, 4, 4)]
    ELSE IF StartsWith(text, H2Open) /\ EndsWith(text, H2Close)
        THEN [style |-> "h2", text |-> Slice(text, 4, 4)]
    ELSE IF StartsWith(text, H3Open) /\ EndsWith(text, H3Close)
        THEN [style |-> "h3", text |-> Slice(text, 4, 4)]
    ELSE IF StartsWith(text, CaptionOpen) /\ EndsWith(text, CaptionClose)
        THEN [style |-> "caption", text |-> Slice(text, 9, 9)]
    ELSE [style |-> block.style, text |-> text]

\* the startswith/endswith chain: the style and the text after the tag pair
\* has been cut off with text[4:-5] or text[9:-10]
TagStyle(block) ==
    LET text == BlockText(block) IN
    IF StartsWith(text, H1Open) /\ EndsWith(text, H1Close)
        THEN [style |-> "h1", text |-> Slice(text, 4, 5)]
    ELSE IF StartsWith(text, H2Open) /\ EndsWith(text, H2Close)
        THEN [style |-> "h2", text |-> Slice(text, 4, 5)]
    ELSE IF StartsWith(text, H3Open) /\ EndsWith(text, H3Close)
        THEN [style |-> "h3", text |-> Slice(text, 4, 5)]
    ELSE IF StartsWith(text, CaptionOpen) /\ EndsWith(text, CaptionClose)
        THEN [style |-> "caption", text |-> Slice(text, 9, 10)]
    ELSE [style |-> block.style, text |-> text]

\* STYLE_CONFIG.get(block_style, STYLE_CONFIG["body"]): the style actually
\* used and its nominal size in points
StyleNames == {"h1", "h2", "h3", "caption", "body"}
STYLE_CONFIG(style) ==
    CASE style = "h1" -> [style |-> "h1", size |-> 14]
      [] style = "h2" -> [style |-> "h2", size |-> 12]
      [] style = "h3" -> [style |-> "h3", size |-> 10]
      [] style = "caption" -> [style |-> "caption", size |-> 8]
      [] OTHER -> [style |-> "body", size |-> 9]

\* re.sub(r'<[^>]+>', '', text): leftmost non-overlapping matches; a match
\* at a '<' needs the first '>' after it to be at least two characters on
FirstGt(s) ==
    LET js == {j \in 2..Len(s) : s[j] = ">"} IN
    IF js = {} THEN 0 ELSE CHOOSE j \in js : \A k \in js : j <= k

RECURSIVE StripTags(_)
StripTags(s) ==
    IF s = << >> THEN << >>
    ELSE IF Head(s) = "<" /\ FirstGt(s) >= 3
        THEN StripTags(SubSeq(s, FirstGt(s) + 1, Len(s)))
    ELSE <<Head(s)>> \o StripTags(Tail(s))

\* the four str.replace calls of _sanitize_text, applied one after another
RECURSIVE Replace(_, _, _)
Replace(s, c, r) ==
    IF s = << >> THEN << >>
    ELSE (IF Head(s) = c THEN r ELSE <<Head(s)>>) \o Replace(Tail(s), c, r)

_sanitize_text(text) ==
    LET t0 == StripTags(text)
        t1 == Replace(t0, "&", <<"&", "a", "m", "p", ";">>)
        t2 == Replace(t1, "<", <<"&", "l", "t", ";">>)
        t3 == Replace(t2, ">", <<"&", "g", "t", ";">>)
    IN Replace(t3, "\n", <<"<", "b", "r", "/", ">">>)

\* Paragraph(text, style): the characters the paragraph shows for a markup,
\* entities decoded and <br/> read as a line break
RECURSIVE ParaChars(_)
ParaChars(m) ==
    IF m = << >> THEN << >>
    ELSE IF StartsWith(m, <<"&", "a", "m", "p", ";">>)
        THEN <<"&">> \o ParaChars(SubSeq(m, 6, Len(m)))
    ELSE IF StartsWith(m, <<"&", "l", "t", ";">>)
        THEN <<"<">> \o ParaChars(SubSeq(m, 5, Len(m)))
    ELSE IF StartsWith(m, <<"&", "g", "t", ";">>)
        THEN <<">">> \o ParaChars(SubSeq(m, 5, Len(m)))
    ELSE IF StartsWith(m, <<"<", "b", "r", "/", ">">>)
        THEN <<"\n">> \o ParaChars(SubSeq(m, 6, Len(m)))
    ELSE <<Head(m)>> \o ParaChars(Tail(m))

\* p.wrap(width, height): the height of the wrapped paragraph in twentieths
\* of a point.  Every glyph is half an em wide, a line holds as many glyphs
\* as fit the width (at least one), every line break starts a line, and a
\* line is leading = 1.3 * size high.
CharsPerLine(width, size2) == Max(1, (4 * Max(width, 0)) \div size2)

RECURSIVE WrapLines(_, _, _)
WrapLines(chars, cpl, col) ==
    IF chars = << >> THEN (IF col > 0 THEN 1 ELSE 0)
    ELSE IF Head(chars) = "\n" THEN 1 + WrapLines(Tail(chars), cpl, 0)
    ELSE IF col = cpl THEN 1 + WrapLines(Tail(chars), cpl, 1)
    ELSE WrapLines(Tail(chars), cpl, col + 1)

WrapHeight(markup, width, size2) ==
    WrapLines(ParaChars(markup), CharsPerLine(width, size2), 0) * size2 * 13

\* the widest line of the wrapped paragraph in twentieths of a point: a line
\* holds at least one glyph, also when the glyph is wider than the box
RECURSIVE WrapMaxCol(_, _, _, _)
WrapMaxCol(chars, cpl, col, best) ==
    IF chars = << >> THEN Max(best, col)
    ELSE IF Head(chars) = "\n" THEN WrapMaxCol(Tail(chars), cpl, 0, Max(best, col))
    ELSE IF col = cpl THEN WrapMaxCol(Tail(chars), cpl, 1, Max(best, col))
    ELSE WrapMaxCol(Tail(chars), cpl, col + 1, best)

WrapWidth(markup, width, size2) ==
    WrapMaxCol(ParaChars(markup), CharsPerLine(width, size2), 0, 0) * size2 * 5

\* _clip_mask_around_protected: None is << >>
RECURSIVE ClipLoop(_, _, _)
ClipLoop(m, zones, mask_area) ==
    IF zones = << >> THEN m
    ELSE
        LET zone == Head(zones)
            ix0 == Max(m[1], zone[1])
            iy0 == Max(m[2], zone[2])
            ix1 == Min(m[3], zone[3])
            iy1 == Min(m[4], zone[4])
        IN
        IF ix0 < ix1 /\ iy0 < iy1
        THEN
            IF (ix1 - ix0) * (iy1 - iy0) * 10 > 3 * mask_area
            THEN << >>
            ELSE
                LET y1 == IF zone[2] > m[2] /\ zone[2] < m[4] THEN zone[2] ELSE m[4]
                    y0 == IF zone[4] < y1 /\ zone[4] > m[2] THEN zone[4] ELSE m[2]
                IN ClipLoop(<<m[1], y0, m[3], y1>>, Tail(zones), mask_area)
        ELSE ClipLoop(m, Tail(zones), mask_area)

_clip_mask_around_protected(mask_bbox, protected_zones) ==
    LET mask_area == Area(mask_bbox) IN
    IF mask_area <= 0 THEN << >>
    ELSE
        LET m == ClipLoop(mask_bbox, protected_zones, mask_area) IN
        IF m = << >> THEN << >>
        ELSE IF m[4] - m[2] < 5 THEN << >>
        ELSE m

\* mask_bbox of _render_text_block: the candidate, clipped if the page has zones
CandidateMask(block) == Expand(block.bbox, 1)
MaskOf(block, protected_zones) ==
    IF protected_zones # << >>
    THEN _clip_mask_around_protected(CandidateMask(block), protected_zones)
    ELSE CandidateMask(block)

\* the y-coordinates flipped but not exchanged
FlipRectUnswapped(rect, height) == <<rect[1], height - rect[2], rect[3], height - rect[4]>>

\* rl_rect of _render_links
FlipRect(rect, height) == <<rect[1], height - rect[4], rect[3], height - rect[2]>>

-----------------------------------------------------------------------------
(* PDFBuilder: the canvas and the calls that draw on it *)

NoFit == [text |-> << >>, x |-> 0, y_bottom |-> 0, width |-> 0, height |-> 0,
          style |-> "body", font_size |-> 0, current_font_size |-> 0,
          p |-> 0, actual_h |-> 0]
EmptyPage == [ops |-> << >>, bookmarks |-> << >>, links |-> << >>]
InitGState == [clip |-> << >>, stack |-> << >>]

\* pdf.saveState() / pdf.restoreState() / pdf.clipPath(rect)
SaveState(g) == [g EXCEPT !.stack = <<g.clip>> \o g.stack]
RestoreState(g) == [clip |-> Head(g.stack), stack |-> Tail(g.stack)]
ClipPath(g, rect) ==
    [g EXCEPT !.clip = IF g.clip = << >> THEN rect ELSE Inter(g.clip, rect)]

ThePage == layout[pi]
TheBlock == ThePage.text_blocks[bk]

\* build: the canvas is created and the page loop is entered
Build ==
    /\ pc = "build"
    /\ pi' = 1
    /\ pc' = IF Len(layout) >= 1 THEN "render_page" ELSE "save"
    /\ UNCHANGED <<parseVars, mergeVars, serveVars, classVars, heurVars, layout, bk, canvasVars>>

\* _render_page up to the block loop: page size, background, bookmark
BackgroundOps(page) ==
    LET bgs == {i \in 1..Len(page.images) : page.images[i].type = "background"} IN
    IF bgs = {} THEN << >>
    ELSE LET i == CHOOSE i \in bgs : \A j \in bgs : i <= j IN
         IF page.images[i].data = "png"
         THEN <<[op |-> "drawImage", rect |-> <<0, 0, page.width, page.height>>]>>
         ELSE << >>

\* _render_page without pdf.setPageSize
RenderPageKeepsSize ==
    /\ pc = "render_page"
    /\ cur' = [ops |-> BackgroundOps(ThePage),
               bookmarks |-> <<ThePage.page_index>>,
               links |-> << >>]
    /\ bk' = 1
    /\ pc' = "text_block"
    /\ UNCHANGED <<parseVars, mergeVars, serveVars, classVars, heurVars, layout, pi, pagesize, gstate, fit, out, buffer>>

RenderPage ==
    /\ pc = "render_page"
    /\ pagesize' = <<ThePage.width, ThePage.height>>
    /\ cur' = [ops |-> BackgroundOps(ThePage),
               bookmarks |-> <<ThePage.page_index>>,
               links |-> << >>]
    /\ bk' = 1
    /\ pc' = "text_block"
    /\ UNCHANGED <<parseVars, mergeVars, serveVars, classVars, heurVars, layout, pi, gstate, fit, out, buffer>>

\* _render_text_block up to the call of _fit_text_to_box, and the first
\* statements of _fit_text_to_box
\* the early returns without the rotation test
SkipsBlockUpright(block, protected_zones) ==
    \/ BlockText(block) = << >>
    \/ MaskOf(block, protected_zones) = << >>

SkipsBlock(block, protected_zones) ==
    \/ block.rotation # 0
    \/ BlockText(block) = << >>
    \/ MaskOf(block, protected_zones) = << >>

MaskRectOp(block, page) ==
    LET m == MaskOf(block, page.protected_zones) IN
    [op |-> "rect", block |-> bk,
     rect |-> <<m[1], page.height - m[4], m[3], page.height - m[2]>>]

RenderTextBlock ==
    /\ pc = "text_block"
    /\ bk <= Len(ThePage.text_blocks)
    /\ IF SkipsBlock(TheBlock, ThePage.protected_zones)
       THEN /\ bk' = bk + 1
            /\ UNCHANGED <<pc, cur, fit, gstate>>
       ELSE LET ts == TagStyle(TheBlock)
                cfg == STYLE_CONFIG(ts.style)
                bbox == TheBlock.bbox
            IN
            /\ gstate' = RestoreState(SaveState(gstate))
            /\ cur' = [cur EXCEPT !.ops = Append(@, MaskRectOp(TheBlock, ThePage))]
            /\ fit' = [text |-> _sanitize_text(ts.text),
                       x |-> bbox[1],
                       y_bottom |-> ThePage.height - bbox[4],
                       width |-> bbox[3] - bbox[1],
                       height |-> bbox[4] - bbox[2],
                       style |-> cfg.style,
                       font_size |-> 2 * cfg.size,
                       current_font_size |-> 2 * cfg.size,
                       p |-> 0,
                       actual_h |-> 20 * (bbox[4] - bbox[2])]
            /\ pc' = "fit"
            /\ UNCHANGED bk
    /\ UNCHANGED <<parseVars, mergeVars, serveVars, classVars, heurVars, layout, pi, pagesize, out, buffer>>

\* a floor of 3pt
min_font_size_low == 4 - 1

\* min_font_size = 4.0, in points
min_font_size == 4

\* one iteration of `while current_font_size >= min_font_size`
FitIter ==
    /\ pc = "fit"
    /\ fit.current_font_size >= 2 * min_font_size
    /\ LET h == WrapHeight(fit.text, fit.width, fit.current_font_size) IN
       IF h <= 20 * fit.height
       THEN /\ fit' = [fit EXCEPT !.p = fit.current_font_size, !.actual_h = h]
            /\ pc' = "draw"
       ELSE /\ fit' = [fit EXCEPT !.p = fit.current_font_size, !.actual_h = h,
                                  !.current_font_size = @ - 1]
            /\ pc' = "fit"
    /\ UNCHANGED <<parseVars, mergeVars, serveVars, classVars, heurVars, layout, pi, bk, pagesize, cur, gstate,
                   out, buffer>>

\* the loop condition fails: the search ran below the floor
FitExit ==
    /\ pc = "fit"
    /\ fit.current_font_size < 2 * min_font_size
    /\ pc' = "draw"
    /\ UNCHANGED <<parseVars, mergeVars, serveVars, classVars, heurVars, layout, pi, bk, canvasVars>>

\* the rest of _fit_text_to_box: clip if it overflows, draw, restore
ClipRect(f) == <<f.x - 1, f.y_bottom - 1, f.x + f.width + 1, f.y_bottom + f.height + 1>>

TextOp(f, g) ==
    LET top == 20 * (f.y_bottom + f.height)
        draw_y == IF top - f.actual_h < 20 * f.y_bottom
                  THEN 20 * f.y_bottom ELSE top - f.actual_h
    IN [op |-> "drawOn", block |-> bk, style |-> f.style, size |-> f.p,
        text |-> ParaChars(f.text),
        x |-> f.x, y |-> draw_y, height |-> f.actual_h,
        width |-> WrapWidth(f.text, f.width, f.p),
        clip |-> g.clip]

DrawText ==
    /\ pc = "draw"
    /\ IF fit.p = 0
       THEN UNCHANGED <<cur, gstate>>
       ELSE IF fit.actual_h > 20 * fit.height
       THEN LET g == ClipPath(SaveState(gstate), ClipRect(fit)) IN
            /\ cur' = [cur EXCEPT !.ops = Append(@, TextOp(fit, g))]
            /\ gstate' = RestoreState(g)
       ELSE /\ cur' = [cur EXCEPT !.ops = Append(@, TextOp(fit, gstate))]
            /\ UNCHANGED gstate
    /\ fit' = NoFit
    /\ bk' = bk + 1
    /\ pc' = "text_block"
    /\ UNCHANGED <<parseVars, mergeVars, serveVars, classVars, heurVars, layout, pi, pagesize, out, buffer>>

\* the block loop of _render_page is over
BlocksDone ==
    /\ pc = "text_block"
    /\ bk > Len(ThePage.text_blocks)
    /\ pc' = "links"
    /\ UNCHANGED <<parseVars, mergeVars, serveVars, classVars, heurVars, layout, pi, bk, canvasVars>>

\* _render_links: the annotations written for the links of a page, in order
LinkAnnot(link, height) ==
    IF link.text # ""
    THEN << >>
    ELSE IF link.kind = 2
    THEN (IF link.uri # ""
          THEN <<[kind |-> "URL", uri |-> link.uri, dest |-> << >>,
                  rect |-> FlipRect(link.from, height)]>>
          ELSE << >>)
    ELSE IF link.kind = 1 \/ link.kind = 4
    THEN (IF link.page # << >>
          THEN <<[kind |-> "Rect", uri |-> "", dest |-> link.page,
                  rect |-> FlipRect(link.from, height)]>>
          ELSE << >>)
    ELSE << >>

RECURSIVE LinkAnnots(_, _)
LinkAnnots(links, height) ==
    IF links = << >> THEN << >>
    ELSE LinkAnnot(Head(links), height) \o LinkAnnots(Tail(links), height)

RenderLinks ==
    /\ pc = "links"
    /\ cur' = [cur EXCEPT !.links = LinkAnnots(ThePage.links, ThePage.height)]
    /\ pc' = "show_page"
    /\ UNCHANGED <<parseVars, mergeVars, serveVars, classVars, heurVars, layout, pi, bk, pagesize, gstate, fit,
                   out, buffer>>

\* pdf.showPage() and the step of the page loop
ShowPage ==
    /\ pc = "show_page"
    /\ out' = Append(out, [size |-> pagesize, ops |-> cur.ops,
                           bookmarks |-> cur.bookmarks, links |-> cur.links])
    /\ cur' = EmptyPage
    /\ gstate' = InitGState
    /\ pi' = pi + 1
    /\ pc' = IF pi + 1 <= Len(layout) THEN "render_page" ELSE "save"
    /\ UNCHANGED <<parseVars, mergeVars, serveVars, classVars, heurVars, layout, bk, pagesize, fit, buffer>>

\* pdf.save(); return buffer.getvalue()
Save ==
    /\ pc = "save"
    /\ buffer' = out
    /\ pc' = "done"
    /\ UNCHANGED <<parseVars, mergeVars, serveVars, classVars, heurVars, layout, pi, bk, pagesize, cur, gstate,
                   fit, out>>

\* Paragraph(text, style) or p.wrap raises inside the size search.  No
\* caller has a handler: the exception leaves _fit_text_to_box,
\* _render_text_block, _render_page and build.
WrapRaises ==
    /\ pc = "fit"
    /\ fit.current_font_size >= 2 * min_font_size
    /\ pc' = "build_failed"
    /\ UNCHANGED <<parseVars, mergeVars, serveVars, classVars, heurVars, layout, pi, bk, canvasVars>>

\* p.drawOn raises: the same way out
DrawRaises ==
    /\ pc = "draw"
    /\ fit.p # 0
    /\ pc' = "build_failed"
    /\ UNCHANGED <<parseVars, mergeVars, serveVars, classVars, heurVars, layout, pi, bk, canvasVars>>

NextBuild ==
    \/ Build
    \/ RenderPage
    \/ RenderTextBlock
    \/ FitIter
    \/ FitExit
    \/ DrawText
    \/ BlocksDone
    \/ RenderLinks
    \/ ShowPage
    \/ Save

-----------------------------------------------------------------------------
(* PDFParser: pure parts *)

UpperSeq == <<"A", "B", "C", "D", "E", "F", "G", "H", "I", "J", "K", "L", "M", "N", "O", "P", "Q", "R", "S", "T", "U", "V", "W", "X", "Y", "Z">>
LowerSeq == <<"a", "b", "c", "d", "e", "f", "g", "h", "i", "j", "k", "l", "m", "n", "o", "p", "q", "r", "s", "t", "u", "v", "w", "x", "y", "z">>
Range(f) == {f[i] : i \in 1..Len(f)}
\* the Greek letters of the texts considered, written by their code point
GreekLetters ==
   {"U+03B1", "U+03B2", "U+03B3", "U+03B4", "U+03B5", "U+03B6", "U+03B7",
    "U+03B8", "U+03B9", "U+03BA", "U+03BB", "U+03BC", "U+03BD", "U+03BE",
    "U+03C0", "U+03C1", "U+03C3", "U+03C4", "U+03C5", "U+03C6", "U+03C7",
    "U+03C8", "U+03C9"}
IsAlpha(c) == c \in Range(UpperSeq) \cup Range(LowerSeq) \cup GreekLetters
IsUpper(c) == c \in Range(UpperSeq)
IsDigit(c) == c \in {"0", "1", "2", "3", "4", "5", "6", "7", "8", "9"}
IsSpace(c) == c \in {" ", "\n", "\t"}
Lower(c) ==
    IF c \in Range(UpperSeq)
    THEN LowerSeq[CHOOSE i \in 1..Len(UpperSeq) : UpperSeq[i] = c]
    ELSE c
LowerStr(s) == [i \in 1..Len(s) |-> Lower(s[i])]
Count(s, c) == Cardinality({i \in 1..Len(s) : s[i] = c})

\* str.strip()
RECURSIVE LStrip(_)
LStrip(s) == IF s # << >> /\ IsSpace(Head(s)) THEN LStrip(Tail(s)) ELSE s
RECURSIVE RStrip(_)
RStrip(s) ==
    IF s # << >> /\ IsSpace(s[Len(s)]) THEN RStrip(SubSeq(s, 1, Len(s) - 1)) ELSE s
Strip(s) == RStrip(LStrip(s))

RECURSIVE Flatten(_)
Flatten(ss) == IF ss = << >> THEN << >> ELSE Head(ss) \o Flatten(Tail(ss))

\* all spans of a block, line after line
AllSpans(block) == Flatten([i \in 1..Len(block.lines) |-> block.lines[i].spans])

\* the non-blank spans
TextSpans(block) ==
    SelectSeq(AllSpans(block), LAMBDA sp : Strip(sp.text) # << >>)

RECURSIVE SumSizes(_)
SumSizes(spans) == IF spans = << >> THEN 0 ELSE Head(spans).size + SumSizes(Tail(spans))

\* _is_math_block
math_fonts == {<<"c", "m", "m", "i">>, <<"c", "m", "s", "y">>, <<"c", "m", "e", "x">>, <<"m", "s", "b", "m">>, <<"w", "a", "s", "y">>, <<"d", "s", "r", "o", "m">>, <<"e", "u", "c", "l", "i", "d">>, <<"s", "t", "i", "x">>}
body_fonts == {<<"n", "i", "m", "b", "u", "s">>, <<"a", "r", "i", "a", "l">>, <<"h", "e", "l", "v", "e", "t", "i", "c", "a">>, <<"t", "i", "m", "e", "s">>, <<"c", "a", "l", "i", "b", "r", "i">>}
piecewise_keywords == {<<"I", "f", " ", "o", "n">>, <<"O", "t", "h", "e", "r", "w", "i", "s", "e">>, <<"a", "d", "a", "p", "t", "a", "t", "i", "o", "n", " ", "u", "s", "i", "n", "g", " ", "S", "E">>}
\* the glyphs that are not ASCII are written by their code point
math_indicators == {<<":", "=">>, <<"U+2248">>, <<"U+2260">>, <<"U+2264">>,
                    <<"U+2265">>, <<"U+2211">>, <<"U+222B">>, <<"U+2202">>,
                    <<"U+2207">>, <<"U+221A">>, <<"U+220F">>}

_is_math_block(block) ==
    LET spans == AllSpans(block)
        text == Strip(Flatten([i \in 1..Len(spans) |-> spans[i].text]))
        fonts == {LowerStr(spans[i].font) : i \in 1..Len(spans)}
        has_math_font == \E f \in fonts : \E mf \in math_fonts : Contains(f, mf)
        has_body_font == \E f \in fonts : \E bf \in body_fonts : Contains(f, bf)
        alpha_count == Cardinality({i \in 1..Len(text) : text[i] # " " /\ IsAlpha(text[i])})
        is_likely_text ==
            /\ Len(text) > 0
            /\ 10 * alpha_count > 6 * Len(text)
            /\ (Contains(text, <<" ">>) \/ ~(Len(text) < 5))
    IN
    IF text = << >> THEN FALSE
    ELSE IF Len(text) > 150 /\ Count(text, " ") > 5 THEN FALSE
    ELSE IF has_math_font /\ ~has_body_font THEN TRUE
    ELSE IF has_math_font /\ ~is_likely_text THEN TRUE
    ELSE IF /\ Contains(text, <<"L", "R", "L">>)
            /\ (Contains(text, <<"(">>) \/ Contains(text, <<"=">>))
            /\ Len(text) < 100
        THEN TRUE
    ELSE IF /\ \E kw \in piecewise_keywords : Contains(text, kw)
            /\ \E i \in 1..Len(text) : text[i] \in {"(", ")", "=", "0", "1", "2"}
        THEN TRUE
    ELSE IF \E x \in math_indicators : Contains(text, x) THEN TRUE
    ELSE IF Len(text) < 5
        THEN \/ \E i \in 1..Len(text) :
                    \/ IsDigit(text[i])
                    \/ text[i] \in {"+", "-", "*", "/", "=", "<", ">", "(", ")",
                                    "{", "}", "[", "]", ",", "."}
             \/ (Len(text) = 1 /\ IsAlpha(text[1]))
    ELSE FALSE

\* _process_text_block: None is << >>.  A direction vector is kept in
\* hundredths, so abs(dir_vec[0]) < 0.1 is Abs(dx) < 10.
Rotation(block) ==
    IF block.lines = << >> THEN 0
    ELSE LET dir_vec == block.lines[1].dir IN
         IF Abs(dir_vec[1]) < 10
         THEN (IF dir_vec[2] < 0 THEN 90 ELSE 270)
         ELSE IF dir_vec[1] < 0 THEN 180
         ELSE 0

\* "".join(text_content): the texts of the spans, "\n" after every line
FullText(block) ==
    Strip(Flatten([i \in 1..Len(block.lines) |->
        Flatten([j \in 1..Len(block.lines[i].spans) |-> block.lines[i].spans[j].text])
        \o <<"\n">>]))

\* avg_size = block_size / span_count is kept as the pair it is the quotient of
_process_text_block(block, base, counter, pidx) ==
    LET ts == TextSpans(block)
        span_count == Len(ts)
        block_size == SumSizes(ts)
        num == IF span_count > 0 THEN block_size ELSE base
        den == IF span_count > 0 THEN span_count ELSE 1
        bold_span_count == Len(SelectSeq(ts, LAMBDA sp : (sp.flags \div 16) % 2 = 1))
        style == IF 10 * num > 16 * base * den THEN "h1"
                 ELSE IF 10 * num > 13 * base * den THEN "h2"
                 ELSE IF 10 * num < 9 * base * den THEN "caption"
                 ELSE "body"
    IN
    IF FullText(block) = << >> THEN << >>
    ELSE <<[type |-> "text",
            text |-> FullText(block),
            bbox |-> block.bbox,
            page_index |-> pidx,
            id |-> counter,
            style |-> style,
            font_size |-> <<num, den>>,
            is_bold |-> (span_count > 0 /\ 2 * bold_span_count > span_count),
            rotation |-> Rotation(block),
            links |-> << >>]>>

\* sorted(blocks, key=lambda b: b["bbox"][1]): a stable sort by the top y
RECURSIVE InsertSorted(_, _)
InsertSorted(sorted, b) ==
    IF sorted = << >> THEN <<b>>
    ELSE IF sorted[Len(sorted)].bbox[2] <= b.bbox[2] THEN Append(sorted, b)
    ELSE Append(InsertSorted(SubSeq(sorted, 1, Len(sorted) - 1), b), sorted[Len(sorted)])

RECURSIVE SortByTop(_)
SortByTop(bs) ==
    IF bs = << >> THEN << >>
    ELSE InsertSorted(SortByTop(SubSeq(bs, 1, Len(bs) - 1)), bs[Len(bs)])

\* _merge_text_blocks
\* should_merge without the cap on the combined length
should_merge_uncapped(current, next_block) ==
    LET v_gap == next_block.bbox[2] - current.bbox[4]
        h_align_diff == Abs(next_block.bbox[1] - current.bbox[1])
    IN /\ v_gap >= -5
       /\ v_gap < 15
       /\ h_align_diff < 15
       /\ current.rotation = next_block.rotation

\* should_merge with a cap that admits a sum of 500
should_merge_cap500(current, next_block) ==
    LET v_gap == next_block.bbox[2] - current.bbox[4]
        h_align_diff == Abs(next_block.bbox[1] - current.bbox[1])
        combined_len == Len(current.text) + Len(next_block.text)
    IN /\ v_gap >= -5
       /\ v_gap < 15
       /\ h_align_diff < 15
       /\ current.rotation = next_block.rotation
       /\ combined_len <= 500

should_merge(current, next_block) ==
    LET v_gap == next_block.bbox[2] - current.bbox[4]
        h_align_diff == Abs(next_block.bbox[1] - current.bbox[1])
        combined_len == Len(current.text) + Len(next_block.text)
    IN /\ v_gap >= -5
       /\ v_gap < 15
       /\ h_align_diff < 15
       /\ current.rotation = next_block.rotation
       /\ combined_len < 500

\* a merge that joins the texts and keeps the first block's bbox
MergeTwoKeepBox(current, next_block) ==
    [current EXCEPT !.text = current.text \o <<"\n">> \o next_block.text]

\* the merge branch of the loop: the new value of current
MergeTwo(current, next_block) ==
    [current EXCEPT
        !.bbox = <<Min(current.bbox[1], next_block.bbox[1]),
                   Min(current.bbox[2], next_block.bbox[2]),
                   Max(current.bbox[3], next_block.bbox[3]),
                   Max(current.bbox[4], next_block.bbox[4])>>,
        !.text = current.text \o <<"\n">> \o next_block.text]

RECURSIVE MergeLoop(_, _, _)
MergeLoop(current, rest, acc) ==
    IF rest = << >> THEN Append(acc, current)
    ELSE IF should_merge(current, Head(rest))
        THEN MergeLoop(MergeTwo(current, Head(rest)), Tail(rest), acc)
    ELSE MergeLoop(Head(rest), Tail(rest), Append(acc, current))

\* the merge without the sort by top edge
_merge_text_blocks_unsorted(bs) ==
    IF bs = << >> THEN << >>
    ELSE MergeLoop(Head(bs), Tail(bs), << >>)

_merge_text_blocks(bs) ==
    IF bs = << >> THEN << >>
    ELSE LET sorted_blocks == SortByTop(bs) IN
         MergeLoop(Head(sorted_blocks), Tail(sorted_blocks), << >>)

-----------------------------------------------------------------------------
(* LayoutAnalyzer *)

\* What the layout library does in one call of analyze is the page's
\* `analysis`: load is "ok", "model_fails" (load_model raises) or
\* "processor_fails" (load_processor raises, after the model was set);
\* decode is whether Image.open reads the image; infer is whether
\* batch_layout_detection returns.  Without a processor the detection raises.
AllOk == [load |-> "ok", decode |-> TRUE, infer |-> TRUE]

\* load_model: the fields after it
load_model(self, env) ==
    IF self.model # "None" THEN self
    ELSE IF env.load = "model_fails" THEN self
    ELSE IF env.load = "processor_fails" THEN [self EXCEPT !.model = "loaded"]
    ELSE [model |-> "loaded", processor |-> "loaded"]

\* the boxes of a result, Picture renamed Figure
AnalyzeOutput(boxes) ==
    [i \in 1..Len(boxes) |->
        [bbox |-> boxes[i].bbox, score |-> 1,
         label |-> IF boxes[i].label = "Picture" THEN "Figure" ELSE boxes[i].label]]

\* analyze without the early returns of a failed detection
analyzeUnguarded(self, boxes, env) ==
    LET loaded == load_model(self, env) IN
    [self |-> loaded,
     output |-> IF loaded.model = "None" THEN << >> ELSE AnalyzeOutput(boxes)]

\* analyze: the fields after the call and the list returned
analyze(self, boxes, env) ==
    LET loaded == load_model(self, env) IN
    [self |-> loaded,
     output |-> IF loaded.model = "None" THEN << >>
                ELSE IF ~env.decode THEN << >>
                ELSE IF ~env.infer \/ loaded.processor = "None" THEN << >>
                ELSE AnalyzeOutput(boxes)]

-----------------------------------------------------------------------------
(* PDFParser.parse *)

\* first pass: font_sizes holds the size of every non-blank span of every
\* text block; max(set(font_sizes), key=font_sizes.count) is one of the most
\* frequent sizes (which one, when several tie, is the set's iteration order)
FontSizes(doc) ==
    Flatten([i \in 1..Len(doc) |->
        Flatten([j \in 1..Len(doc[i].blocks) |->
            IF doc[i].blocks[j].type = 0
            THEN [k \in 1..Len(TextSpans(doc[i].blocks[j])) |->
                      TextSpans(doc[i].blocks[j])[k].size]
            ELSE << >>])])

BaseSizes(doc) ==
    LET font_sizes == FontSizes(doc)
        count(v) == Cardinality({i \in 1..Len(font_sizes) : font_sizes[i] = v})
    IN IF font_sizes = << >> THEN {11}
       ELSE {v \in Range(font_sizes) : \A w \in Range(font_sizes) : count(w) <= count(v)}

Parse ==
    /\ pc = "parse"
    /\ base_size' \in BaseSizes(pdf)
    /\ parsed' = << >>
    /\ block_counter' = 0
    /\ page_index' = 0
    /\ pc' = "parse_page"
    /\ UNCHANGED <<pdf, model, processor, mergeVars, serveVars, classVars, heurVars, layout, pi, bk, canvasVars>>

\* the zones of a page: the Table and Figure boxes of the layout analysis
ProtectedZones(layout_results) ==
    LET keep == SelectSeq(layout_results, LAMBDA res : res.label \in {"Table", "Figure"})
    IN [i \in 1..Len(keep) |-> keep[i].bbox]

\* is_protected: some zone covers more than half of the block
IsProtected(bbox, zones) ==
    \E i \in 1..Len(zones) : 2 * OverlapArea(bbox, zones[i]) > Area(bbox)

\* step 3 of the page loop: the blocks kept and the counter after them
\* the extraction without "block_counter += 1"
RECURSIVE ExtractBlocksSameId(_, _, _, _, _, _, _)
ExtractBlocksSameId(raw_blocks, page, zones, base, counter, pidx, acc) ==
    IF raw_blocks = << >> THEN [text_blocks |-> acc, block_counter |-> counter]
    ELSE
        LET block == Head(raw_blocks)
            skip == \/ block.type # 0
                    \/ 100 * block.bbox[2] < 5 * page.height
                    \/ 100 * block.bbox[4] > 95 * page.height
                    \/ IsProtected(block.bbox, zones)
                    \/ _is_math_block(block)
            processed == IF skip THEN << >>
                         ELSE _process_text_block(block, base, counter, pidx)
        IN ExtractBlocksSameId(Tail(raw_blocks), page, zones, base,
                         counter, pidx, acc \o processed)

RECURSIVE ExtractBlocks(_, _, _, _, _, _, _)
ExtractBlocks(raw_blocks, page, zones, base, counter, pidx, acc) ==
    IF raw_blocks = << >> THEN [text_blocks |-> acc, block_counter |-> counter]
    ELSE
        LET block == Head(raw_blocks)
            skip == \/ block.type # 0
                    \/ 100 * block.bbox[2] < 5 * page.height
                    \/ 100 * block.bbox[4] > 95 * page.height
                    \/ IsProtected(block.bbox, zones)
                    \/ _is_math_block(block)
            processed == IF skip THEN << >>
                         ELSE _process_text_block(block, base, counter, pidx)
        IN ExtractBlocks(Tail(raw_blocks), page, zones, base,
                         counter + Len(processed), pidx, acc \o processed)

\* one iteration of the page loop
ParsePage ==
    /\ pc = "parse_page"
    /\ page_index < Len(pdf)
    /\ LET page == pdf[page_index + 1]
           a == analyze([model |-> model, processor |-> processor],
                        page.layout_results, page.analysis)
           protected_zones == ProtectedZones(a.output)
           ex == ExtractBlocks(page.blocks, page, protected_zones, base_size,
                               block_counter, page_index, << >>)
       IN /\ parsed' = Append(parsed,
                [width |-> page.width,
                 height |-> page.height,
                 images |-> <<[type |-> "background", data |-> "png"]>>,
                 text_blocks |-> _merge_text_blocks(ex.text_blocks),
                 links |-> << >>,
                 page_index |-> page_index,
                 protected_zones |-> protected_zones])
          /\ block_counter' = ex.block_counter
          /\ model' = a.self.model
          /\ processor' = a.self.processor
    /\ page_index' = page_index + 1
    /\ UNCHANGED <<pdf, base_size, pc, mergeVars, serveVars, classVars, heurVars, layout, pi, bk, canvasVars>>

\* fitz.open raises: the input is not a PDF
OpenRaises ==
    /\ pc = "parse"
    /\ pc' = "parse_failed"
    /\ UNCHANGED <<parseVars, mergeVars, serveVars, classVars, heurVars, layout, pi, bk, canvasVars>>

\* page.get_text raises on a page in the first pass: parse has no handler
FirstPassRaises ==
    /\ pc = "parse"
    /\ pdf # << >>
    /\ pc' = "extract_failed"
    /\ UNCHANGED <<parseVars, mergeVars, serveVars, classVars, heurVars, layout, pi, bk, canvasVars>>

\* load_page, get_pixmap or get_text raises in the page loop: parse has no
\* handler, the pages built so far are lost with the call
PageRaises ==
    /\ pc = "parse_page"
    /\ page_index < Len(pdf)
    /\ pc' = "extract_failed"
    /\ UNCHANGED <<parseVars, mergeVars, serveVars, classVars, heurVars, layout, pi, bk, canvasVars>>

\* return DocumentLayout(pages=pages, filename=filename)
ParseReturn ==
    /\ pc = "parse_page"
    /\ page_index = Len(pdf)
    /\ pc' = "rewrite"
    /\ UNCHANGED <<parseVars, mergeVars, serveVars, classVars, heurVars, layout, pi, bk, canvasVars>>

-----------------------------------------------------------------------------
(* BlockClassifier *)

\* _is_pure_formula
sentence_indicators ==
   {<<" ", "i", "s", " ">>, <<" ", "a", "r", "e", " ">>,
    <<" ", "w", "a", "s", " ">>, <<" ", "w", "e", "r", "e", " ">>,
    <<" ", "h", "a", "v", "e", " ">>, <<" ", "h", "a", "s", " ">>,
    <<" ", "c", "a", "n", " ">>, <<" ", "w", "i", "l", "l", " ">>,
    <<" ", "s", "h", "o", "u", "l", "d", " ">>, <<" ", "m", "a", "y", " ">>,
    <<" ", "m", "i", "g", "h", "t", " ">>, <<" ", "t", "h", "e", " ">>,
    <<" ", "a", " ">>, <<" ", "a", "n", " ">>,
    <<" ", "t", "h", "i", "s", " ">>, <<" ", "t", "h", "a", "t", " ">>,
    <<" ", "t", "h", "e", "s", "e", " ">>, <<" ", "w", "e", " ">>,
    <<" ", "o", "u", "r", " ">>, <<" ", "t", "h", "e", "y", " ">>,
    <<" ", "i", "t", " ">>, <<" ", "i", "t", "s", " ">>,
    <<" ", "w", "h", "e", "r", "e", " ">>,
    <<" ", "w", "h", "i", "c", "h", " ">>, <<" ", "w", "h", "e", "n", " ">>,
    <<" ", "h", "o", "w", " ">>, <<" ", "w", "h", "a", "t", " ">>,
    <<" ", "d", "e", "n", "o", "t", "e", " ">>,
    <<" ", "d", "e", "n", "o", "t", "e", "s", " ">>,
    <<" ", "r", "e", "p", "r", "e", "s", "e", "n", "t", " ">>,
    <<" ", "r", "e", "p", "r", "e", "s", "e", "n", "t", "s", " ">>,
    <<" ", "c", "o", "m", "p", "u", "t", "e", " ">>,
    <<" ", "d", "e", "f", "i", "n", "e", " ">>,
    <<" ", "e", "n", "s", "u", "r", "e", " ">>,
    <<" ", "c", "o", "n", "s", "i", "d", "e", "r", " ">>}
math_chars ==
   {"U+2080", "U+2081", "U+2082", "U+2083", "U+2084", "U+2085", "U+2086",
    "U+2087", "U+2088", "U+2089", "U+2070", "U+00B9", "U+00B2", "U+00B3",
    "U+2074", "U+2075", "U+2076", "U+2077", "U+2078", "U+2079", "U+2264",
    "U+2265", "U+2260", "U+2248", "U+2208", "U+2211", "U+222B", "U+2202",
    "U+03B1", "U+03B2", "U+03B3", "U+03B4", "U+03B5", "U+03B6", "U+03B7",
    "U+03B8", "U+03B9", "U+03BA", "U+03BB", "U+03BC", "U+03BD", "U+03BE",
    "U+03C0", "U+03C1", "U+03C3", "U+03C4", "U+03C5", "U+03C6", "U+03C7",
    "U+03C8", "U+03C9", "{", "}", "[", "]", "(", ")", "=", "+", "-", "*",
    "/", "_", "^"}

has_sentence(text) ==
    \E ind \in sentence_indicators : Contains(LowerStr(text), ind)

_is_pure_formula(text0) ==
    LET text == Strip(text0)
        math_count == Cardinality({i \in 1..Len(text) :
                          text[i] \in math_chars \/ ~IsAlpha(text[i])})
    IN
    IF Len(text) < 15 THEN TRUE
    ELSE IF has_sentence(text) THEN FALSE
    ELSE IF IsUpper(text[1]) /\ Contains(text, <<".", " ">>) THEN FALSE
    ELSE IF Len(text) > 100 THEN FALSE
    ELSE IF Len(text) < 50 THEN 2 * math_count > Max(Len(text), 1)
    ELSE FALSE

\* _validate_classifications
verbs ==
   {<<"i", "s">>, <<"a", "r", "e">>, <<"w", "a", "s">>,
    <<"w", "e", "r", "e">>, <<"h", "a", "v", "e">>, <<"h", "a", "s">>,
    <<"c", "a", "n">>, <<"w", "i", "l", "l">>,
    <<"s", "h", "o", "u", "l", "d">>, <<"c", "o", "m", "p", "u", "t", "e">>,
    <<"d", "e", "f", "i", "n", "e">>, <<"e", "n", "s", "u", "r", "e">>,
    <<"d", "e", "n", "o", "t", "e">>,
    <<"c", "o", "n", "s", "i", "d", "e", "r">>}

ValidateOne(block, classification) ==
    LET text == Strip(block.text)
        forced == \/ (Contains(text, <<".">>) /\ Len(text) > 30)
                  \/ Len(text) > 50
                  \/ \E v \in verbs :
                        Contains(<<" ">> \o LowerStr(text) \o <<" ">>,
                                 <<" ">> \o v \o <<" ">>)
    IN IF _is_pure_formula(text) THEN "PRESERVE"
       ELSE IF forced THEN "REWRITE"
       ELSE classification

_validate_classifications(bs, classifications) ==
    [i \in 1..Min(Len(bs), Len(classifications)) |->
        ValidateOne(bs[i], classifications[i])]

\* _do_classify.  The reply of the service is one of:
\*   kind "error"    - the request fails (transport error, HTTP status, a
\*                     body without the expected shape);
\*   kind "json"     - the content, code fences removed, is a JSON object
\*                     whose "classifications" are `items`;
\*   kind "embedded" - the content is not JSON but holds such an object
\*                     between its first "{" and last "}";
\*   kind "garbage"  - neither.
\* The result is [ok |-> TRUE, result |-> the list returned], or ok = FALSE
\* when the call raises.
Raised == [ok |-> FALSE, result |-> << >>]
Returned(r) == [ok |-> TRUE, result |-> r]
RECURSIVE ResultMapGet(_, _)
ResultMapGet(items, i) ==
    IF items = << >> THEN "REWRITE"
    ELSE IF items[Len(items)].id = i THEN items[Len(items)].type
    ELSE ResultMapGet(SubSeq(items, 1, Len(items) - 1), i)

_do_classify(reply, expected_count) ==
    IF reply.kind = "json"
    THEN Returned([i \in 1..expected_count |->
            LET res == ResultMapGet(reply.items, i - 1)
            IN IF res \notin {"REWRITE", "PRESERVE"} THEN "REWRITE" ELSE res])
    ELSE IF reply.kind = "embedded"
    THEN Returned([i \in 1..expected_count |-> ResultMapGet(reply.items, i - 1)])
    ELSE Raised

\* the replies considered for a call with n blocks: no item, one item per
\* block (all of one type, or alternating), an id given twice, an id that
\* is no block's; "KEEP" stands for a type that is neither REWRITE nor
\* PRESERVE
ReplyItems(n) ==
    {<< >>,
     <<[id |-> 0, type |-> "PRESERVE"], [id |-> 0, type |-> "REWRITE"]>>,
     <<[id |-> n, type |-> "PRESERVE"]>>,
     [i \in 1..n |-> [id |-> i - 1, type |-> IF i % 2 = 1 THEN "REWRITE" ELSE "PRESERVE"]]}
    \cup {[i \in 1..n |-> [id |-> i - 1, type |-> t]] : t \in {"REWRITE", "PRESERVE", "KEEP"}}
Replies(n) ==
    {[kind |-> k, items |-> << >>] : k \in {"error", "garbage"}}
    \cup {[kind |-> k, items |-> it] : k \in {"json", "embedded"}, it \in ReplyItems(n)}

\* the retry loop gives up after max_retries failed attempts
max_retries == 3

\* classify_blocks: entry, up to the first attempt
ClassifyBlocks ==
    /\ pc = "classify"
    /\ IF cblocks = << >>
       THEN classes' = << >> /\ pc' = "classified"
       ELSE classes' = classes /\ pc' = "attempt"
    /\ attempt' = 0
    /\ UNCHANGED <<cblocks, parseVars, mergeVars, serveVars, heurVars, layout, pi, bk, canvasVars>>

\* an attempt whose reply is understood: the validated list is returned
AttemptReturns ==
    /\ pc = "attempt"
    /\ attempt < max_retries
    /\ \E reply \in Replies(Len(cblocks)) :
        LET result == _do_classify(reply, Len(cblocks)) IN
        /\ result.ok
        /\ classes' = _validate_classifications(cblocks, result.result)
    /\ pc' = "classified"
    /\ UNCHANGED <<cblocks, attempt, parseVars, mergeVars, serveVars, heurVars, layout, pi, bk, canvasVars>>

\* an attempt that raises, not the last one: sleep and try again
AttemptRetries ==
    /\ pc = "attempt"
    /\ attempt < max_retries - 1
    /\ \E reply \in Replies(Len(cblocks)) :
        ~_do_classify(reply, Len(cblocks)).ok
    /\ attempt' = attempt + 1
    /\ UNCHANGED <<cblocks, classes, pc, parseVars, mergeVars, serveVars, heurVars, layout, pi, bk, canvasVars>>

\* the last attempt raises: every block is REWRITE
AttemptGivesUp ==
    /\ pc = "attempt"
    /\ attempt = max_retries - 1
    /\ \E reply \in Replies(Len(cblocks)) :
        ~_do_classify(reply, Len(cblocks)).ok
    /\ classes' = [i \in 1..Len(cblocks) |-> "REWRITE"]
    /\ pc' = "classified"
    /\ UNCHANGED <<cblocks, attempt, parseVars, mergeVars, serveVars, heurVars, layout, pi, bk, canvasVars>>

NextClassify ==
    \/ ClassifyBlocks
    \/ AttemptReturns
    \/ AttemptRetries
    \/ AttemptGivesUp

-----------------------------------------------------------------------------
(* The two text heuristics called on a block of their own *)

\* the text of a raw block: its spans joined
SpanText(block) ==
    LET spans == AllSpans(block) IN Flatten([i \in 1..Len(spans) |-> spans[i].text])

\* a Python bool as it prints
Bool(b) == IF b THEN "True" ELSE "False"

IsMathCall ==
    /\ pc = "heur"
    /\ is_math = "none"
    /\ is_math' = Bool(_is_math_block(hblock))
    /\ UNCHANGED <<pc, hblock, is_formula, hprocessed, parseVars, mergeVars, serveVars, classVars, layout, pi, bk, canvasVars>>

IsPureFormulaCall ==
    /\ pc = "heur"
    /\ is_formula = "none"
    /\ is_formula' = Bool(_is_pure_formula(SpanText(hblock)))
    /\ UNCHANGED <<pc, hblock, is_math, hprocessed, parseVars, mergeVars, serveVars, classVars, layout, pi, bk, canvasVars>>

NextHeur ==
    \/ IsMathCall
    \/ IsPureFormulaCall

\* _process_text_block called on a block of its own, with the default base
\* size, counter 0 and page 0
ProcessCall ==
    /\ pc = "process"
    /\ hprocessed' = _process_text_block(hblock, 11, 0, 0)
    /\ pc' = "processed"
    /\ UNCHANGED <<hblock, is_math, is_formula, parseVars, mergeVars, serveVars, classVars, layout, pi, bk, canvasVars>>

NextProcess == ProcessCall

-----------------------------------------------------------------------------
(* TaskManager, DocumentProcessor.process and the routes that start it *)

\* A task is its row of the Task table together with what the coroutine
\* that processes it holds: endpoint, client_id, llm_config and highlight
\* are the values the route captured, ppc is the position of the coroutine,
\* result what _translate_with_pdf2zh gave ("none" before, "None", "raised"
\* or "pdf", and "none" again once process has returned), used the values
\* of the OPENAILIKED_ variables the translation ran with (<< >> before).
\* percent and message are not kept.

\* the llm section of config.yaml (core/config.py for base_url and model)
ServerLLM ==
    [base_url |-> "https://api.openai.com/v1", api_key |-> "server-key", model |-> "gpt-4o"]

\* deps.get_llm_config for a request with an X-LLM-API-Key header
get_llm_config(headers) ==
    [base_url |-> headers.X_LLM_Base_URL,
     api_key |-> headers.X_LLM_API_Key,
     model |-> headers.X_LLM_Model]

\* deps.get_client_id for such a request: api_key[:16]; the keys of the
\* requests considered have at most 16 characters
get_client_id(headers) == headers.X_LLM_API_Key

\* process, lines 50-53: `cfg.get(k) or self.config.llm.k`
EffectiveLLM(llm_config) ==
    [base_url |-> IF llm_config.base_url # "" THEN llm_config.base_url ELSE ServerLLM.base_url,
     api_key |-> IF llm_config.api_key # "" THEN llm_config.api_key ELSE ServerLLM.api_key,
     model |-> IF llm_config.model # "" THEN llm_config.model ELSE ServerLLM.model]

\* TaskManager.create_task: the new row
NewTask(endpoint, headers, highlight, ppc) ==
    [endpoint |-> endpoint,
     client_id |-> get_client_id(headers),
     llm_config |-> get_llm_config(headers),
     highlight |-> highlight,
     status |-> "PENDING",
     highlight_stats |-> "None",
     result_pdf_path |-> "None",
     ppc |-> ppc,
     result |-> "none",
     used |-> << >>]

\* TaskManager.update_progress, set_highlight_stats, set_result, set_error
\* on a row that exists
update_progress(task, status) == [task EXCEPT !.status = status]
set_highlight_stats(task, stats_json) == [task EXCEPT !.highlight_stats = stats_json]
set_result(task, pdf_bytes) ==
    [task EXCEPT !.result_pdf_path = IF pdf_bytes # "" THEN "temp_dir/task_id.pdf" ELSE @,
                 !.status = "COMPLETED"]
\* a set_error that leaves the row as it is
set_error_lost(task) == task
set_error(task) == [task EXCEPT !.status = "ERROR"]

\* processing.max_concurrent of the configuration
max_concurrent == 1

\* the tasks created are at most
MaxTasks == 2

\* _get_semaphore: the free permits of the client's semaphore, created on
\* first use
_get_semaphore(client_id) ==
    IF client_id \notin DOMAIN _client_semaphores THEN max_concurrent
    ELSE _client_semaphores[client_id]

\* _client_semaphores once sem = _get_semaphore(client_id) has run
WithSemaphore(client_id) ==
    [c \in DOMAIN _client_semaphores \cup {client_id} |->
        IF c = client_id THEN _get_semaphore(client_id) ELSE _client_semaphores[c]]

RemoveFrom(q, t) == SelectSeq(q, LAMBDA x : x # t)

\* POST /upload: the task is created, queued and handed to
\* _process_with_limit, which starts at `async with sem`
upload_pdf(headers, highlight) ==
    /\ pc = "serve"
    /\ Len(tasks) < MaxTasks
    /\ tasks' = Append(tasks, NewTask("upload", headers, highlight, "acquire"))
    /\ _queue' = Append(_queue, Len(tasks) + 1)
    /\ _client_semaphores' = WithSemaphore(get_client_id(headers))
    /\ UNCHANGED <<environ, pc, parseVars, mergeVars, classVars, heurVars, layout, pi, bk, canvasVars>>

\* POST /upload-url: as upload, without the queue
upload_from_url(headers, highlight) ==
    /\ pc = "serve"
    /\ Len(tasks) < MaxTasks
    /\ tasks' = Append(tasks, NewTask("upload-url", headers, highlight, "acquire"))
    /\ _client_semaphores' = WithSemaphore(get_client_id(headers))
    /\ UNCHANGED <<environ, _queue, pc, parseVars, mergeVars, classVars, heurVars, layout, pi, bk, canvasVars>>

\* POST /batch-import, one paper of the loop: the task is created and
\* process is scheduled as it is
batch_import(headers, highlight) ==
    /\ pc = "serve"
    /\ Len(tasks) < MaxTasks
    /\ tasks' = Append(tasks, NewTask("batch-import", headers, highlight, "start"))
    /\ UNCHANGED <<environ, _client_semaphores, _queue, pc, parseVars, mergeVars, classVars, heurVars, layout, pi, bk, canvasVars>>

\* process up to `await asyncio.to_thread`: the status is PARSING and the
\* variables of os.environ are the request's
ProcessBegins(task) ==
    [update_progress(task, "PARSING") EXCEPT !.ppc = "thread"]

\* _process_with_limit and _process: the semaphore is taken, the task
\* leaves the queue, process begins
ProcessWithLimit(t) ==
    /\ pc = "serve"
    /\ tasks[t].ppc = "acquire"
    /\ _client_semaphores[tasks[t].client_id] > 0
    /\ _client_semaphores' =
           [_client_semaphores EXCEPT ![tasks[t].client_id] = @ - 1]
    /\ _queue' = RemoveFrom(_queue, t)
    /\ tasks' = [tasks EXCEPT ![t] = ProcessBegins(@)]
    /\ environ' = EffectiveLLM(tasks[t].llm_config)
    /\ UNCHANGED <<pc, parseVars, mergeVars, classVars, heurVars, layout, pi, bk, canvasVars>>

\* the coroutine batch_import scheduled starts
ProcessUnlimited(t) ==
    /\ pc = "serve"
    /\ tasks[t].ppc = "start"
    /\ tasks' = [tasks EXCEPT ![t] = ProcessBegins(@)]
    /\ environ' = EffectiveLLM(tasks[t].llm_config)
    /\ UNCHANGED <<_client_semaphores, _queue, pc, parseVars, mergeVars, classVars, heurVars, layout, pi, bk, canvasVars>>

\* _translate_with_pdf2zh in its thread: pdf2zh cannot be imported
ImportFails(t) ==
    /\ pc = "serve"
    /\ tasks[t].ppc = "thread"
    /\ tasks' = [tasks EXCEPT ![t].result = "None", ![t].ppc = "resume"]
    /\ UNCHANGED <<environ, _client_semaphores, _queue, pc, parseVars, mergeVars, classVars, heurVars, layout, pi, bk, canvasVars>>

\* DocLayoutModel.load_available or the temporary directory raises: the
\* exception leaves _translate_with_pdf2zh
ThreadRaises(t) ==
    /\ pc = "serve"
    /\ tasks[t].ppc = "thread"
    /\ tasks' = [tasks EXCEPT ![t].result = "raised", ![t].ppc = "resume"]
    /\ UNCHANGED <<environ, _client_semaphores, _queue, pc, parseVars, mergeVars, classVars, heurVars, layout, pi, bk, canvasVars>>

\* the input file is written and the status is REWRITING
ThreadRewriting(t) ==
    /\ pc = "serve"
    /\ tasks[t].ppc = "thread"
    /\ tasks' = [tasks EXCEPT ![t] = [update_progress(@, "REWRITING") EXCEPT !.ppc = "translate"]]
    /\ UNCHANGED <<environ, _client_semaphores, _queue, pc, parseVars, mergeVars, classVars, heurVars, layout, pi, bk, canvasVars>>

\* translate(service="openailiked") takes its base URL, key and model from
\* os.environ; it raises, returns no result, or returns the two files, of
\* which the chosen one exists or not
TranslateOutcomes == {"raises", "empty", "no_file", "file"}
Translate(t) ==
    /\ pc = "serve"
    /\ tasks[t].ppc = "translate"
    /\ \E outcome \in TranslateOutcomes :
        tasks' = [tasks EXCEPT ![t] =
            [(IF outcome \in {"no_file", "file"} THEN update_progress(@, "RENDERING") ELSE @)
                EXCEPT !.used = environ,
                       !.result = IF outcome = "file" THEN "pdf" ELSE "None",
                       !.ppc = "resume"]]
    /\ UNCHANGED <<environ, _client_semaphores, _queue, pc, parseVars, mergeVars, classVars, heurVars, layout, pi, bk, canvasVars>>

\* process returns: its locals are gone
Returns(task) == [task EXCEPT !.ppc = "done", !.result = "none"]

\* `async with sem` of the two limited routes ends with process
Released(t) ==
    IF tasks[t].endpoint = "batch-import" THEN _client_semaphores
    ELSE [_client_semaphores EXCEPT ![tasks[t].client_id] = @ + 1]

\* process after the thread: an exception or no result is an error; a
\* result is highlighted first if asked, stored otherwise
ProcessResumes(t) ==
    /\ pc = "serve"
    /\ tasks[t].ppc = "resume"
    /\ IF tasks[t].result \in {"raised", "None"}
       THEN /\ tasks' = [tasks EXCEPT ![t] = Returns(set_error(@))]
            /\ _client_semaphores' = Released(t)
       ELSE IF tasks[t].highlight
       THEN /\ tasks' = [tasks EXCEPT ![t] =
                           [update_progress(@, "HIGHLIGHTING") EXCEPT !.ppc = "highlight"]]
            /\ UNCHANGED _client_semaphores
       ELSE /\ tasks' = [tasks EXCEPT ![t] = Returns(set_result(@, tasks[t].result))]
            /\ _client_semaphores' = Released(t)
    /\ UNCHANGED <<environ, _queue, pc, parseVars, mergeVars, classVars, heurVars, layout, pi, bk, canvasVars>>

\* highlight_pdf returns (the statistics are stored) or raises (the
\* exception is logged); the result is stored either way
Highlight(t) ==
    /\ pc = "serve"
    /\ tasks[t].ppc = "highlight"
    /\ \E raised \in BOOLEAN :
        tasks' = [tasks EXCEPT ![t] =
            Returns(set_result(IF raised THEN @ ELSE set_highlight_stats(@, "json"),
                               tasks[t].result))]
    /\ _client_semaphores' = Released(t)
    /\ UNCHANGED <<environ, _queue, pc, parseVars, mergeVars, classVars, heurVars, layout, pi, bk, canvasVars>>

-----------------------------------------------------------------------------
(* Inputs *)

MaxPages == 2
MaxZones == 2
MaxLinks == 2
MaxMerge == 3
MaxBlocks == 2

SeqsUpTo(S, n) == UNION {[1..k -> S] : k \in 0..n}

TxtAB == <<"a", "b">>
TxtLong == Rep("a", 12)

\* the texts X put between a tag pair, and the rewritten texts built of them
InnerTexts == {TxtAB, << >>, TxtLong,
               <<"a", "<", "b", ">", "c">>, <<"a", "&", "b">>, <<"a", "\n", "b">>, <<"a", "<", ">", "b">>, <<"a", "<", "b">>, <<"x", "<", "/", "h", "1", ">", "<", "h", "1", ">", "y">>}
Tagged(t, X) == <<"<">> \o t \o <<">">> \o X \o <<"<", "/">> \o t \o <<">">>
TagNames == {<<"h", "1">>, <<"h", "2">>, <<"h", "3">>, <<"c", "a", "p", "t", "i", "o", "n">>}
RewrittenTexts ==
    {<< >>} \cup InnerTexts
    \cup {Tagged(t, X) : t \in TagNames, X \in InnerTexts}
    \cup {H1Open \o TxtAB, H1Open \o TxtAB \o H2Close, <<"<", "h", "4", ">", "a", "b", "<", "/", "h", "4", ">">>}

Blk(bbox, text, rewritten, style, rotation) ==
    [bbox |-> bbox, text |-> text, rewritten_text |-> rewritten,
     style |-> style, rotation |-> rotation]

PageOf(width, height, images, text_blocks, links, zones) ==
    [width |-> width, height |-> height, images |-> images, page_index |-> 0,
     text_blocks |-> text_blocks, links |-> links, protected_zones |-> zones]

Background == <<[type |-> "background", data |-> "png"]>>

\* pages that differ in the text and style of their one block
TextBoxes == {<<10, 10, 30, 20>>, <<10, 10, 12, 40>>}
TextPages ==
    {PageOf(40, 60, Background, <<Blk(b, TxtAB, r, st, 0)>>, << >>, << >>) :
        b \in TextBoxes, r \in RewrittenTexts, st \in {"body", "h3", "title"}}

\* pages that differ in their protected zones
ZoneSet == {<<10, 17, 20, 40>>, <<10, 15, 20, 19>>, <<5, 5, 14, 40>>,
            <<0, 0, 40, 12>>, <<30, 30, 38, 38>>, <<0, 0, 40, 60>>}
ZoneBoxes == {<<11, 11, 19, 19>>, <<11, 11, 19, 29>>}
ZonePages ==
    {PageOf(40, 60, Background, <<Blk(b, TxtAB, << >>, "body", 0)>>, << >>, zs) :
        b \in ZoneBoxes, zs \in SeqsUpTo(ZoneSet, MaxZones)}

\* pages that differ in their links
Lnk(from, kind, uri, page, text) ==
    [from |-> from, kind |-> kind, uri |-> uri, page |-> page, text |-> text]
LinkSet == {Lnk(<<5, 10, 15, 20>>, 2, "http://a", << >>, ""),
            Lnk(<<5, 10, 15, 20>>, 2, "", << >>, ""),
            Lnk(<<5, 10, 15, 20>>, 2, "http://a", << >>, "x"),
            Lnk(<<6, 30, 16, 25>>, 2, "http://b", << >>, ""),
            Lnk(<<0, 0, 40, 60>>, 1, "", <<1>>, ""),
            Lnk(<<5, 40, 15, 50>>, 4, "", <<0>>, ""),
            Lnk(<<5, 40, 15, 50>>, 1, "", << >>, ""),
            Lnk(<<5, 40, 15, 50>>, 3, "file", << >>, "")}
LinkPages ==
    {PageOf(40, 60, << >>, << >>, ls, << >>) : ls \in SeqsUpTo(LinkSet, MaxLinks)}

\* pages of several blocks, and pages of other sizes, for longer documents
MixedPages ==
    {PageOf(30, 50, << >>,
            <<Blk(<<10, 10, 12, 14>>, TxtLong, << >>, "body", 0),
              Blk(<<10, 20, 28, 40>>, TxtAB, Tagged(<<"h", "1">>, TxtAB), "body", 0)>>,
            <<Lnk(<<5, 10, 15, 20>>, 1, "", <<0>>, "")>>, << >>),
     PageOf(50, 30, <<[type |-> "image", data |-> "png"],
                      [type |-> "background", data |-> "bad"]>>,
            <<Blk(<<10, 10, 30, 20>>, TxtAB, << >>, "caption", 90),
              Blk(<<10, 10, 30, 20>>, << >>, << >>, "body", 0),
              Blk(<<11, 11, 19, 19>>, TxtLong, << >>, "h2", 0)>>,
            << >>, <<<<10, 17, 20, 40>>>>),
     PageOf(40, 60, Background, << >>, << >>, << >>)}

\* pages whose first block is rotated
RotatedPages ==
    {PageOf(40, 60, Background,
            <<Blk(<<10, 10, 30, 20>>, t, r, "body", rot),
              Blk(<<10, 30, 30, 40>>, TxtAB, << >>, "body", 0)>>,
            << >>, zs) :
        t \in {TxtAB, << >>}, r \in {<< >>, TxtLong, Tagged(<<"h", "1">>, TxtAB)},
        rot \in {90, 180, 270}, zs \in {<< >>, <<<<30, 30, 38, 38>>>>}}

\* pages with a block 2pt high, with and without a protected zone
ThinPages ==
    {PageOf(40, 60, Background,
            <<Blk(<<10, 10, 30, 12>>, TxtAB, r, "body", 0),
              Blk(<<10, 30, 30, 40>>, TxtAB, << >>, "body", 0)>>,
            << >>, zs) :
        r \in {<< >>, TxtLong}, zs \in {<< >>, <<<<30, 50, 38, 58>>>>}}

\* pages with two upright blocks whose boxes overlap, in both orders
OverlapPages ==
    {PageOf(40, 60, Background,
            <<Blk(<<10, 10, 30, 20>>, TxtAB, << >>, "body", 0),
              Blk(<<10, 18, 30, 28>>, TxtLong, << >>, "body", 0)>>,
            << >>, << >>),
     PageOf(40, 60, Background,
            <<Blk(<<10, 18, 30, 28>>, TxtLong, << >>, "body", 0),
              Blk(<<10, 10, 30, 20>>, TxtAB, << >>, "body", 0)>>,
            << >>, << >>)}

\* doc_layout["pages"] of build: page_index is the position of the page
Numbered(pages) == [i \in 1..Len(pages) |-> [pages[i] EXCEPT !.page_index = i - 1]]
Layouts ==
    {<<p>> : p \in TextPages \cup ZonePages \cup LinkPages \cup RotatedPages \cup ThinPages
                 \cup OverlapPages}
    \cup {Numbered(ps) : ps \in UNION {[1..k -> MixedPages] : k \in 1..MaxPages}}

\* the input documents of parse: blocks as page.get_text("dict") gives them
Span(text, size, flags, font) == [text |-> text, size |-> size, flags |-> flags, font |-> font]
Line(dir, spans) == [dir |-> dir, spans |-> spans]
Raw(type, bbox, lines) == [type |-> type, bbox |-> bbox, lines |-> lines]
Times == <<"T", "i", "m", "e", "s", "-", "R", "o", "m", "a", "n">>
CMMI == <<"C", "M", "M", "I", "1", "0">>

RawPara1 == Raw(0, <<10, 10, 30, 20>>, <<Line(<<100, 0>>, <<Span(TxtAB, 10, 0, Times)>>)>>)
RawPara2 == Raw(0, <<10, 25, 30, 35>>,
                <<Line(<<100, 0>>, <<Span(<<"c">>, 10, 16, Times), Span(<<" ">>, 12, 0, Times)>>),
                  Line(<<100, 0>>, <<Span(<<"d">>, 10, 0, Times)>>)>>)
RawHeader == Raw(0, <<10, 1, 30, 2>>, <<Line(<<100, 0>>, <<Span(TxtAB, 10, 0, Times)>>)>>)
RawMath == Raw(0, <<10, 5, 30, 9>>, <<Line(<<100, 0>>, <<Span(<<"x", "=", "1">>, 10, 0, Times)>>)>>)
RawSymbol == Raw(0, <<10, 10, 30, 14>>, <<Line(<<100, 0>>, <<Span(TxtLong, 10, 0, CMMI)>>)>>)
RawImage == Raw(1, <<5, 5, 25, 25>>, << >>)
RawTitle == Raw(0, <<10, 20, 30, 30>>, <<Line(<<100, 0>>, <<Span(TxtLong, 20, 16, Times)>>)>>)
RawRotated == Raw(0, <<32, 10, 36, 30>>, <<Line(<<0, -100>>, <<Span(TxtLong, 8, 0, Times)>>)>>)
RawInFigure == Raw(0, <<10, 40, 30, 50>>, <<Line(<<100, 0>>, <<Span(TxtAB, 10, 0, Times)>>)>>)
RawEquation == Raw(0, <<10, 22, 30, 24>>, <<Line(<<100, 0>>, <<Span(<<"y", "=", "2">>, 10, 0, Times)>>)>>)
RawBlank == Raw(0, <<10, 52, 30, 55>>, <<Line(<<100, 0>>, <<Span(<<" ">>, 10, 0, Times)>>)>>)

\* layout_results are the boxes the layout model finds on the page when it
\* runs; analysis is what the layout library does when the page is analysed
PdfPage(width, height, raw_blocks, links, layout_results) ==
    [width |-> width, height |-> height, blocks |-> raw_blocks, links |-> links,
     layout_results |-> layout_results, analysis |-> AllOk]
Analysed(page, env) ==
    [width |-> page.width, height |-> page.height, blocks |-> page.blocks,
     links |-> page.links, layout_results |-> page.layout_results,
     analysis |-> env]

PicturePage ==
    PdfPage(60, 40, <<RawImage, RawMath, RawSymbol, RawTitle>>,
            <<Lnk(<<5, 10, 15, 20>>, 1, "", <<0>>, "")>>,
            <<[label |-> "Picture", bbox |-> <<5, 5, 25, 12>>],
              [label |-> "Text", bbox |-> <<10, 20, 30, 30>>]>>)
TablePage ==
    PdfPage(40, 60, <<RawHeader, RawInFigure, RawRotated, RawBlank, RawPara1, RawEquation>>,
            << >>,
            <<[label |-> "Table", bbox |-> <<5, 38, 35, 52>>]>>)

PdfPages ==
    {PdfPage(40, 60, <<RawPara1, RawPara2>>,
             <<Lnk(<<5, 10, 15, 20>>, 2, "http://a", << >>, "")>>, << >>),
     PicturePage,
     TablePage,
     PdfPage(30, 50, << >>,
             <<Lnk(<<5, 10, 15, 20>>, 2, "http://a", << >>, ""),
               Lnk(<<5, 30, 15, 40>>, 4, "", <<1>>, "")>>, << >>)}

\* a narrow column of text beside a picture, continued by a wide line below it
RawNarrow == Raw(0, <<10, 10, 12, 40>>, <<Line(<<100, 0>>, <<Span(TxtAB, 10, 0, Times)>>)>>)
RawWide == Raw(0, <<10, 42, 60, 44>>, <<Line(<<100, 0>>, <<Span(TxtLong, 10, 0, Times)>>)>>)
WrapPage ==
    PdfPage(70, 60, <<RawNarrow, RawWide>>, << >>,
            <<[label |-> "Picture", bbox |-> <<13, 10, 60, 41>>]>>)

\* pages on which the layout analysis fails in one of its ways
AnalysisEnvs ==
    {AllOk,
     [load |-> "model_fails", decode |-> TRUE, infer |-> TRUE],
     [load |-> "processor_fails", decode |-> TRUE, infer |-> TRUE],
     [load |-> "ok", decode |-> FALSE, infer |-> TRUE],
     [load |-> "ok", decode |-> TRUE, infer |-> FALSE]}
AnalysisPages ==
    {Analysed(TablePage, e) : e \in AnalysisEnvs}
    \cup {Analysed(PicturePage, [load |-> "ok", decode |-> TRUE, infer |-> FALSE])}

\* documents whose analysis never fails, documents whose first page is
\* one of AnalysisPages, followed by pages with a table, and documents of
\* pages with a text that runs around a picture
PdfDocs ==
    UNION {[1..k -> PdfPages]
           \cup {d \in [1..k -> AnalysisPages \cup {TablePage}] :
                    \A i \in 2..k : d[i] = TablePage}
           \cup {[i \in 1..k |-> WrapPage]} : k \in 1..MaxPages}

\* the rewriting service between parse and build: every block gets a
\* rewritten text, or none
RewriteSet == {<< >>, TxtLong, Tagged(<<"h", "2">>, TxtAB)}

Rewrite ==
    /\ pc = "rewrite"
    /\ \E r \in RewriteSet :
        layout' = [i \in 1..Len(parsed) |->
            [width |-> parsed[i].width, height |-> parsed[i].height,
             images |-> parsed[i].images, links |-> parsed[i].links,
             page_index |-> parsed[i].page_index,
             protected_zones |-> parsed[i].protected_zones,
             text_blocks |-> [j \in 1..Len(parsed[i].text_blocks) |->
                 [bbox |-> parsed[i].text_blocks[j].bbox,
                  text |-> parsed[i].text_blocks[j].text,
                  rewritten_text |-> r,
                  style |-> parsed[i].text_blocks[j].style,
                  rotation |-> parsed[i].text_blocks[j].rotation,
                  id |-> parsed[i].text_blocks[j].id]]]]
    /\ pc' = "build"
    /\ UNCHANGED <<parseVars, mergeVars, serveVars, classVars, heurVars, pi, bk, canvasVars>>

\* the blocks classify_blocks is called with
TxtAxis == <<"x", "-", "a", "x", "i", "s">>
TxtShortIs == <<"a", " ", "i", "s", " ", "b">>
TxtValueIs == <<"v", "a", "l", "u", "e", " ", "x", " ", "i", "s", " ", "l", "a", "r", "g", "e">>
TxtFormula == <<"A", "_", "{", "i", ",", "s", "}", " ", "=", " ", "(", "x", "+", "y", ")", "/", "2">>
TxtWord == <<"I", "n", "t", "r", "o", "d", "u", "c", "t", "i", "o", "n", "p", "a", "r", "t", "1">>
TxtFig == <<"F", "i", "g", ".", " ", "1", " ", "s", "h", "o", "w", "s", " ", "A", "=", "B">>
TxtLabel10 == <<"(", "a", ")", " ", "p", "<", "0", ".", "0", "5">>
TxtRule == Rep("=", 101)
TxtMidRule == Rep("=", 51)
ClassTexts == {TxtAxis, TxtShortIs, TxtValueIs, TxtFormula, TxtWord, TxtFig, TxtLabel10, TxtRule, TxtMidRule}
CBlock(text) == [text |-> text, bbox |-> <<0, 0, 0, 0>>, page_index |-> 0]
ClassInputs == SeqsUpTo({CBlock(t) : t \in ClassTexts}, MaxBlocks)

\* the blocks the text heuristics are called with: a short text around a
\* glyph, a paragraph of more than 150 characters that holds it, a word of
\* more than 150 characters that ends with it, and a formula of more than
\* 100 characters; each in a body font, in a math font and in both
Glyphs ==
    {<<"U+2264">>, <<"U+2265">>, <<"U+2208">>, <<"U+2211">>, <<"U+222B">>,
     <<"U+2202">>, <<"U+221A">>, <<"U+220F">>, <<":", "=">>, <<"U+2248">>,
     <<"U+2260">>, <<"U+2207">>}
Words(n) == Flatten([i \in 1..n |-> <<"a", "b", " ">>])
HeurTexts ==
    {<<"a", " ">> \o g \o <<" ", "b">> : g \in Glyphs}
    \cup {Words(51) \o g : g \in Glyphs}
    \cup {Rep("a", 151) \o g : g \in Glyphs}
    \cup {Rep("=", 101), Rep("(", 101) \o <<" ", "i", "s", " ", "x">>,
          TxtAxis, TxtShortIs, TxtValueIs, TxtFormula, TxtWord, TxtFig,
          <<"x", " ", "a", "r", "e", " ", "y", " ", "w", "h", "e", "r", "e", " ", "z", " ", "=", " ", "1">>,
          <<"x", "=", "1">>, <<"(", "1", ")", " ", "i", "s", " ", "(", "2", ")", "+", "(", "3", ")", "+", "(", "4", ")">>}
HeurFonts == {<<Times>>, <<CMMI>>, <<Times, CMMI>>}
HeurBlock(text, fonts) ==
    Raw(0, <<10, 10, 30, 20>>,
        <<Line(<<100, 0>>,
            [i \in 1..Len(fonts) |->
                Span(IF i = 1 THEN text ELSE <<"x">>, 10, 0, fonts[i])])>>)
HeurBlocks == {HeurBlock(t, f) : t \in HeurTexts, f \in HeurFonts}

\* the requests the routes are called with: two clients with their own
\* keys, one leaving the model and one leaving the base URL to the server
HeadersA == [X_LLM_API_Key |-> "keyA", X_LLM_Base_URL |-> "https://a", X_LLM_Model |-> ""]
HeadersB == [X_LLM_API_Key |-> "keyB", X_LLM_Base_URL |-> "", X_LLM_Model |-> "mB"]
Requests == {HeadersA, HeadersB}
\* highlight is left to the default of each route
HighlightOf(endpoint) == endpoint # "upload"

\* the blocks _process_text_block is called with: one line of text whose
\* direction is a unit vector (in hundredths) every 15 degrees, or 5 degrees
\* off an axis
DirParts == {<<100, 0>>, <<100, 9>>, <<97, 26>>, <<87, 50>>, <<71, 71>>}
Dirs ==
    UNION {{<<sx * d[1], sy * d[2]>>, <<sx * d[2], sy * d[1]>>} :
              d \in DirParts, sx \in {-1, 1}, sy \in {-1, 1}}
DirSpans == {<<Span(TxtAB, 10, 0, Times)>>, <<Span(TxtLong, 20, 16, Times)>>,
             <<Span(TxtAB, 8, 0, Times), Span(<<" ">>, 8, 0, Times)>>,
             <<Span(<<" ">>, 10, 0, Times)>>}
DirBlocks == {Raw(0, <<10, 10, 30, 20>>, <<Line(d, sp)>>) : d \in Dirs, sp \in DirSpans}

\* the blocks _merge_text_blocks is called with on its own
TBlock(id, bbox, text, rotation, style) ==
    [type |-> "text", text |-> text, bbox |-> bbox, page_index |-> 0, id |-> id,
     style |-> style, font_size |-> <<10, 1>>, is_bold |-> (style = "h1"),
     rotation |-> rotation, links |-> << >>]

MergeBlocks ==
    {TBlock(0, <<10, 100, 50, 120>>, Rep("a", 40), 0, "h1"),
     TBlock(1, <<10, 128, 60, 150>>, Rep("b", 40), 0, "body"),
     TBlock(2, <<24, 115, 40, 125>>, Rep("c", 459), 0, "body"),
     TBlock(3, <<25, 134, 40, 140>>, Rep("d", 460), 0, "caption"),
     TBlock(4, <<-4, 135, 40, 160>>, Rep("e", 250), 0, "body"),
     TBlock(5, <<10, 114, 40, 130>>, Rep("f", 249), 90, "body"),
     TBlock(6, <<10, 100, 30, 110>>, Rep("g", 10), 90, "body"),
     TBlock(7, <<-5, 164, 30, 170>>, Rep("h", 249), 0, "h2"),
     TBlock(8, <<0, 166, 30, 172>>, Rep("i", 250), 0, "body"),
     TBlock(9, <<12, 152, 40, 158>>, <<"j", "\n", "k">>, 0, "body")}

MergeInputs == SeqsUpTo(MergeBlocks, MaxMerge)

MergeCall ==
    /\ pc = "merge"
    /\ merged' = _merge_text_blocks(blocks)
    /\ pc' = "merged"
    /\ UNCHANGED <<parseVars, blocks, classVars, heurVars, serveVars, layout, pi, bk, canvasVars>>

-----------------------------------------------------------------------------
(* Specifications *)

\* the server is not part of the calls below
ServeIdle ==
    /\ tasks = << >>
    /\ environ = << >>
    /\ _client_semaphores = << >>
    /\ _queue = << >>

\* parse, then the rewriting service, then build
Init ==
    /\ pc = "parse"
    /\ pdf \in PdfDocs
    /\ parsed = << >> /\ page_index = 0 /\ block_counter = 0 /\ base_size = 11
    /\ layout = << >> /\ pi = 0 /\ bk = 0
    /\ pagesize = <<595, 842>> /\ cur = EmptyPage /\ gstate = InitGState
    /\ fit = NoFit /\ out = << >> /\ buffer = << >>
    /\ blocks = << >> /\ merged = << >>
    /\ model = "None" /\ processor = "None"
    /\ cblocks = << >> /\ attempt = 0 /\ classes = << >>
    /\ hblock = << >> /\ is_math = "none" /\ is_formula = "none"
    /\ hprocessed = << >>
    /\ ServeIdle

Next ==
    \/ Parse
    \/ ParsePage
    \/ ParseReturn
    \/ Rewrite
    \/ NextBuild

Spec == Init /\ [][Next]_vars

\* build called with a layout of its own
InitBuild ==
    /\ pc = "build"
    /\ layout \in Layouts
    /\ pdf = << >> /\ parsed = << >> /\ page_index = 0 /\ block_counter = 0
    /\ base_size = 11
    /\ pi = 0 /\ bk = 0
    /\ pagesize = <<595, 842>> /\ cur = EmptyPage /\ gstate = InitGState
    /\ fit = NoFit /\ out = << >> /\ buffer = << >>
    /\ blocks = << >> /\ merged = << >>
    /\ model = "None" /\ processor = "None"
    /\ cblocks = << >> /\ attempt = 0 /\ classes = << >>
    /\ hblock = << >> /\ is_math = "none" /\ is_formula = "none"
    /\ hprocessed = << >>
    /\ ServeIdle

\* the pipeline when the calls into the PDF libraries may raise
NextExc ==
    \/ Next
    \/ OpenRaises
    \/ FirstPassRaises
    \/ PageRaises
    \/ WrapRaises
    \/ DrawRaises

SpecExc == Init /\ [][NextExc]_vars

SpecBuild == InitBuild /\ [][NextBuild]_vars

\* _merge_text_blocks called with a list of its own
InitMerge ==
    /\ pc = "merge"
    /\ blocks \in MergeInputs
    /\ merged = << >>
    /\ pdf = << >> /\ parsed = << >> /\ page_index = 0 /\ block_counter = 0
    /\ base_size = 11
    /\ layout = << >> /\ pi = 0 /\ bk = 0
    /\ pagesize = <<595, 842>> /\ cur = EmptyPage /\ gstate = InitGState
    /\ fit = NoFit /\ out = << >> /\ buffer = << >>
    /\ model = "None" /\ processor = "None"
    /\ cblocks = << >> /\ attempt = 0 /\ classes = << >>
    /\ hblock = << >> /\ is_math = "none" /\ is_formula = "none"
    /\ hprocessed = << >>
    /\ ServeIdle

NextMerge == MergeCall

SpecMerge == InitMerge /\ [][NextMerge]_vars

\* classify_blocks called with a list of its own
InitClassify ==
    /\ pc = "classify"
    /\ cblocks \in ClassInputs
    /\ attempt = 0 /\ classes = << >>
    /\ pdf = << >> /\ parsed = << >> /\ page_index = 0 /\ block_counter = 0
    /\ base_size = 11 /\ model = "None" /\ processor = "None"
    /\ layout = << >> /\ pi = 0 /\ bk = 0
    /\ pagesize = <<595, 842>> /\ cur = EmptyPage /\ gstate = InitGState
    /\ fit = NoFit /\ out = << >> /\ buffer = << >>
    /\ blocks = << >> /\ merged = << >>
    /\ hblock = << >> /\ is_math = "none" /\ is_formula = "none"
    /\ hprocessed = << >>
    /\ ServeIdle

SpecClassify == InitClassify /\ [][NextClassify]_vars

\* the text heuristics called with a block of their own
InitHeur ==
    /\ pc = "heur"
    /\ hblock \in HeurBlocks
    /\ is_math = "none" /\ is_formula = "none" /\ hprocessed = << >>
    /\ ServeIdle
    /\ cblocks = << >> /\ attempt = 0 /\ classes = << >>
    /\ pdf = << >> /\ parsed = << >> /\ page_index = 0 /\ block_counter = 0
    /\ base_size = 11 /\ model = "None" /\ processor = "None"
    /\ layout = << >> /\ pi = 0 /\ bk = 0
    /\ pagesize = <<595, 842>> /\ cur = EmptyPage /\ gstate = InitGState
    /\ fit = NoFit /\ out = << >> /\ buffer = << >>
    /\ blocks = << >> /\ merged = << >>

SpecHeur == InitHeur /\ [][NextHeur]_vars

\* _process_text_block called with a block of its own
InitProcess ==
    /\ pc = "process"
    /\ hblock \in DirBlocks
    /\ is_math = "none" /\ is_formula = "none" /\ hprocessed = << >>
    /\ ServeIdle
    /\ cblocks = << >> /\ attempt = 0 /\ classes = << >>
    /\ pdf = << >> /\ parsed = << >> /\ page_index = 0 /\ block_counter = 0
    /\ base_size = 11 /\ model = "None" /\ processor = "None"
    /\ layout = << >> /\ pi = 0 /\ bk = 0
    /\ pagesize = <<595, 842>> /\ cur = EmptyPage /\ gstate = InitGState
    /\ fit = NoFit /\ out = << >> /\ buffer = << >>
    /\ blocks = << >> /\ merged = << >>

SpecProcess == InitProcess /\ [][NextProcess]_vars

\* the server after start-up: no task, no semaphore, os.environ without the
\* three variables
InitServe ==
    /\ pc = "serve"
    /\ tasks = << >>
    /\ environ = [base_url |-> "unset", api_key |-> "unset", model |-> "unset"]
    /\ _client_semaphores = << >>
    /\ _queue = << >>
    /\ hblock = << >> /\ is_math = "none" /\ is_formula = "none" /\ hprocessed = << >>
    /\ cblocks = << >> /\ attempt = 0 /\ classes = << >>
    /\ pdf = << >> /\ parsed = << >> /\ page_index = 0 /\ block_counter = 0
    /\ base_size = 11 /\ model = "None" /\ processor = "None"
    /\ layout = << >> /\ pi = 0 /\ bk = 0
    /\ pagesize = <<595, 842>> /\ cur = EmptyPage /\ gstate = InitGState
    /\ fit = NoFit /\ out = << >> /\ buffer = << >>
    /\ blocks = << >> /\ merged = << >>

NextServe ==
    \/ \E h \in Requests : upload_pdf(h, HighlightOf("upload"))
    \/ \E h \in Requests : upload_from_url(h, HighlightOf("upload-url"))
    \/ \E h \in Requests : batch_import(h, HighlightOf("batch-import"))
    \/ \E t \in 1..Len(tasks) : ProcessWithLimit(t)
    \/ \E t \in 1..Len(tasks) : ProcessUnlimited(t)
    \/ \E t \in 1..Len(tasks) : ImportFails(t)
    \/ \E t \in 1..Len(tasks) : ThreadRaises(t)
    \/ \E t \in 1..Len(tasks) : ThreadRewriting(t)
    \/ \E t \in 1..Len(tasks) : Translate(t)
    \/ \E t \in 1..Len(tasks) : ProcessResumes(t)
    \/ \E t \in 1..Len(tasks) : Highlight(t)

SpecServe == InitServe /\ [][NextServe]_vars

-----------------------------------------------------------------------------
(* Properties *)

\* the box of block b of page in the canvas's bottom-left coordinates
BoxRL(page, b) ==
    LET bbox == page.text_blocks[b].bbox IN
    <<bbox[1], page.height - bbox[4], bbox[3], page.height - bbox[2]>>
\* a rectangle in twentieths of a point
Times20(r) == <<20 * r[1], 20 * r[2], 20 * r[3], 20 * r[4]>>
\* what a drawOn paints: the paragraph's extent, cut by the clip in force
PaintedText(op) ==
    LET r == <<20 * op.x, op.y, 20 * op.x + op.width, op.y + op.height>> IN
    IF op.clip = << >> THEN r ELSE Inter(r, Times20(op.clip))
\* a mask rectangle back in top-left coordinates
MaskTL(op, page) ==
    <<op.rect[1], page.height - op.rect[4], op.rect[3], page.height - op.rect[2]>>
OpsOf(i, kind) == {k \in 1..Len(out[i].ops) : out[i].ops[k].op = kind}

\* C1: build emits one page per page of the layout, in order, each of the
\* page's size; parse yields one PageLayout per input page, in order, with
\* the page's width and height and its 0-based position as page_index.
C1_Pages ==
    /\ pc \notin {"parse"} =>
        /\ Len(parsed) = page_index
        /\ \A i \in 1..Len(parsed) :
            /\ parsed[i].width = pdf[i].width
            /\ parsed[i].height = pdf[i].height
            /\ parsed[i].page_index = i - 1
    /\ pc \notin {"parse", "parse_page"} => Len(parsed) = Len(pdf)
    /\ \A i \in 1..Len(out) :
        /\ out[i].size = <<layout[i].width, layout[i].height>>
        /\ out[i].bookmarks = <<layout[i].page_index>>
    /\ pc = "done" => buffer = out /\ Len(buffer) = Len(layout)

C1_Witness ==
    /\ pc = "done"
    /\ Len(pdf) = 2
    /\ pdf[1].width # pdf[2].width
    /\ Len(buffer) = 2

\* C2: a block whose candidate mask (bbox expanded by 1pt) overlaps some
\* protected zone of its page by more than 30% of the candidate's area gets
\* neither a mask nor a text.
C2_NoPaintOverThreshold ==
    \A i \in 1..Len(out) : \A b \in 1..Len(layout[i].text_blocks) :
        LET cand == CandidateMask(layout[i].text_blocks[b])
            zones == layout[i].protected_zones
        IN (\E z \in 1..Len(zones) : 10 * OverlapArea(cand, zones[z]) > 3 * Area(cand))
            => \A k \in 1..Len(out[i].ops) :
                   out[i].ops[k].op \in {"rect", "drawOn"} => out[i].ops[k].block # b

\* C3: every mask rectangle painted overlaps each protected zone of its page
\* by at most 30% of the painted rectangle's own area.
C3_PaintedMaskOverlap ==
    \A i \in 1..Len(out) : \A k \in OpsOf(i, "rect") :
        LET m == MaskTL(out[i].ops[k], layout[i])
            zones == layout[i].protected_zones
        IN \A z \in 1..Len(zones) : 10 * OverlapArea(m, zones[z]) <= 3 * Area(m)

\* C4: the mask and the text painted for a block lie inside the block's bbox
\* expanded by 1pt; a text that is still too high at the floor is drawn
\* inside a clip equal to that rectangle; no clip is left for the next block.
C4_PaintInsideBox ==
    /\ \A i \in 1..Len(out) : \A k \in 1..Len(out[i].ops) :
        LET op == out[i].ops[k] IN
        /\ op.op = "rect" =>
              Inside(op.rect, Expand(BoxRL(layout[i], op.block), 1))
        /\ op.op = "drawOn" =>
              /\ Inside(PaintedText(op), Times20(Expand(BoxRL(layout[i], op.block), 1)))
              /\ op.height > 20 * (BoxRL(layout[i], op.block)[4] - BoxRL(layout[i], op.block)[2])
                    => op.clip = Expand(BoxRL(layout[i], op.block), 1)
    /\ pc \in {"text_block", "links", "show_page"} => gstate = InitGState

\* C5: walking the blocks in ascending top-y order, the current block and
\* the next one are merged iff the gap next.y0 - current.y1 is in [-5, 15),
\* the left edges differ by less than 15, the rotations are equal and the two
\* text lengths add up to less than 500; otherwise both stay, in that order.
C5Cond(current, next_block) ==
    /\ next_block.bbox[2] - current.bbox[4] \in -5..14
    /\ Abs(next_block.bbox[1] - current.bbox[1]) < 15
    /\ current.rotation = next_block.rotation
    /\ Len(current.text) + Len(next_block.text) < 500

\* the blocks s[a..b] as one block: the first block with the union of the
\* bboxes and the texts joined by newlines
RECURSIVE JoinGroup(_, _, _)
JoinGroup(s, a, b) ==
    IF a = b THEN s[a]
    ELSE LET c == JoinGroup(s, a, b - 1) IN
         [c EXCEPT !.bbox = <<Min(c.bbox[1], s[b].bbox[1]), Min(c.bbox[2], s[b].bbox[2]),
                             Max(c.bbox[3], s[b].bbox[3]), Max(c.bbox[4], s[b].bbox[4])>>,
                   !.text = c.text \o <<"\n">> \o s[b].text]

\* the groups a set of cut positions splits 1..n into, as <<first, last>>
GroupStart(cuts, k) == 1 + Max(0, IF {c \in cuts : c < k} = {} THEN 0
                                  ELSE CHOOSE c \in cuts : c < k /\ \A d \in cuts : d < k => d <= c)
RECURSIVE SetToSeq(_)
SetToSeq(S) ==
    IF S = {} THEN << >>
    ELSE LET m == CHOOSE x \in S : \A y \in S : x <= y IN <<m>> \o SetToSeq(S \ {m})
Joined(s, cuts) ==
    LET ends == SetToSeq(cuts \cup {Len(s)}) IN
    [g \in 1..Len(ends) |-> JoinGroup(s, GroupStart(cuts, ends[g]), ends[g])]

C5_MergeIff ==
    pc = "merged" /\ blocks # << >> =>
        LET s == SortByTop(blocks) IN
        \E cuts \in SUBSET (1..(Len(s) - 1)) :
            /\ \A k \in 1..(Len(s) - 1) :
                 (k \notin cuts) <=> C5Cond(JoinGroup(s, GroupStart(cuts, k), k), s[k + 1])
            /\ merged = Joined(s, cuts)

C5_Witness ==
    /\ pc = "merged"
    /\ Len(blocks) = 3
    /\ Len(merged) = 2
    /\ Len(merged[1].text) > Len(SortByTop(blocks)[1].text)

\* C6: a merged block has the union of the two bboxes, the two texts joined
\* by a newline, and everything else of the first block; blocks spanning
\* y 100-120 and y 128-150 with equal x0 become one block spanning y 100-150.
ExampleFirst == TBlock(0, <<10, 100, 50, 120>>, Rep("a", 40), 0, "h1")
ExampleSecond == TBlock(1, <<10, 128, 60, 150>>, Rep("b", 40), 0, "body")

C6_MergeResult ==
    /\ pc = "merged" /\ Len(blocks) = 2 /\ Len(merged) = 1 =>
        LET a == SortByTop(blocks)[1]
            b == SortByTop(blocks)[2]
        IN /\ merged[1].bbox = <<Min(a.bbox[1], b.bbox[1]), Min(a.bbox[2], b.bbox[2]),
                                 Max(a.bbox[3], b.bbox[3]), Max(a.bbox[4], b.bbox[4])>>
           /\ merged[1].text = a.text \o <<"\n">> \o b.text
           /\ merged[1].id = a.id
           /\ merged[1].style = a.style
           /\ merged[1].rotation = a.rotation
           /\ merged[1].font_size = a.font_size
           /\ merged[1].is_bold = a.is_bold
    /\ pc = "merged" /\ blocks = <<ExampleSecond, ExampleFirst>> =>
        /\ Len(merged) = 1
        /\ merged[1].bbox = <<10, 100, 60, 150>>
        /\ merged[1].id = 0
    /\ pc = "merged" /\ Len(blocks) = 3 /\ Len(merged) = 1 =>
        LET s == SortByTop(blocks) IN
        /\ merged[1].text = s[1].text \o <<"\n">> \o s[2].text \o <<"\n">> \o s[3].text
        /\ \A k \in 1..3 : Inside(s[k].bbox, merged[1].bbox)
        /\ merged[1].id = s[1].id /\ merged[1].style = s[1].style

C6_Witness ==
    /\ pc = "merged"
    /\ blocks = <<ExampleSecond, ExampleFirst>>
    /\ merged[1].bbox = <<10, 100, 60, 150>>

\* C7: the font-size search terminates; the text is drawn at the largest of
\* nominal, nominal - 0.5, ..., 4 at which the wrapped height does not exceed
\* the box height, or at 4pt when none fits; never below 4pt, never above
\* the nominal size of the style (h1 14, h2 12, h3 10, caption 8, body 9).
C7Nominal(style) ==
    CASE style = "h1" -> 14 [] style = "h2" -> 12 [] style = "h3" -> 10
      [] style = "caption" -> 8 [] style = "body" -> 9

C7_DrawnSize ==
    /\ \A i \in 1..Len(out) : \A k \in OpsOf(i, "drawOn") :
        LET op == out[i].ops[k]
            block == layout[i].text_blocks[op.block]
            markup == _sanitize_text(TagStyle(block).text)
            width == block.bbox[3] - block.bbox[1]
            height == block.bbox[4] - block.bbox[2]
            sizes == (2 * 4)..(2 * C7Nominal(op.style))
            fitting == {sz \in sizes : WrapHeight(markup, width, sz) <= 20 * height}
        IN /\ op.size \in sizes
           /\ op.size = IF fitting = {} THEN 2 * 4
                        ELSE CHOOSE sz \in fitting : \A t \in fitting : t <= sz

\* the search cannot run for ever: while it runs, the size tried lies between
\* half a point under the floor and the nominal size, a further step is
\* always possible, and every step that stays in the search lowers the size
C7_SearchBounded ==
    pc = "fit" =>
        /\ fit.current_font_size <= fit.font_size
        /\ fit.current_font_size >= 2 * 4 - 1
        /\ ENABLED (FitIter \/ FitExit)

C7_SizeDecreases ==
    pc = "fit" /\ pc' = "fit" => fit'.current_font_size < fit.current_font_size

C7_FontSearch ==
    /\ [](C7_DrawnSize /\ C7_SearchBounded)
    /\ [][C7_SizeDecreases]_vars

C7_Witness ==
    \E i \in 1..Len(out) : \E k \in OpsOf(i, "drawOn") :
        /\ out[i].ops[k].size > 2 * 4
        /\ out[i].ops[k].size < 2 * C7Nominal(out[i].ops[k].style)

\* C8: a link written on a page of height H from the source rectangle
\* (x0, y_low, x1, y_high) has the rectangle (x0, H - y_high, x1, H - y_low),
\* whose lower y is not above its upper y when that holds of the source.
C8Written(link) ==
    /\ link.text = ""
    /\ \/ link.kind = 2 /\ link.uri # ""
       \/ link.kind \in {1, 4} /\ link.page # << >>

C8_LinkFlip ==
    \A i \in 1..Len(out) :
        LET H == layout[i].height
            written == SelectSeq(layout[i].links, C8Written)
        IN /\ Len(out[i].links) = Len(written)
           /\ \A k \in 1..Len(written) :
                LET src == written[k].from
                    r == out[i].links[k].rect
                IN /\ r = <<src[1], H - src[4], src[3], H - src[2]>>
                   /\ src[2] <= src[4] => r[2] <= r[4]

C8_Witness ==
    \E i \in 1..Len(out) :
        /\ Len(out[i].links) = 2
        /\ out[i].links[1].kind = "URL"
        /\ out[i].links[2].kind = "Rect"

\* C9 as stated: a text <t>X</t> with t in {h1, h2, h3, caption} is rendered
\* with style t and shows X; any other text is rendered with the block's own
\* style, an unknown style as body.
C9Inner(text, t) == SubSeq(text, Len(t) + 3, Len(text) - Len(t) - 3)
C9IsTagged(text, t) ==
    /\ Len(text) >= 2 * Len(t) + 5
    /\ text = <<"<">> \o t \o <<">">> \o C9Inner(text, t) \o <<"<", "/">> \o t \o <<">">>
C9StyleName(t) ==
    IF t = <<"h", "1">> THEN "h1" ELSE IF t = <<"h", "2">> THEN "h2"
    ELSE IF t = <<"h", "3">> THEN "h3" ELSE "caption"
C9OwnStyle(block) ==
    IF block.style \in {"h1", "h2", "h3", "caption", "body"} THEN block.style ELSE "body"

C9_Original ==
    \A i \in 1..Len(out) : \A k \in OpsOf(i, "drawOn") :
        LET op == out[i].ops[k]
            block == layout[i].text_blocks[op.block]
            text == BlockText(block)
        IN /\ \A t \in TagNames : C9IsTagged(text, t) =>
                /\ op.style = C9StyleName(t)
                /\ op.text = C9Inner(text, t)
           /\ (\A t \in TagNames : ~C9IsTagged(text, t)) => op.style = C9OwnStyle(block)

\* C9 as amended: the text shown is X without the tag pair and without any
\* further substring of the form <...> that X contains.
C9_TagStyle ==
    \A i \in 1..Len(out) : \A k \in OpsOf(i, "drawOn") :
        LET op == out[i].ops[k]
            block == layout[i].text_blocks[op.block]
            text == BlockText(block)
        IN /\ \A t \in TagNames : C9IsTagged(text, t) =>
                /\ op.style = C9StyleName(t)
                /\ op.text = StripTags(C9Inner(text, t))
           /\ (\A t \in TagNames : ~C9IsTagged(text, t)) => op.style = C9OwnStyle(block)

C9_Witness ==
    \E i \in 1..Len(out) : \E k \in OpsOf(i, "drawOn") :
        LET op == out[i].ops[k]
            block == layout[i].text_blocks[op.block]
        IN /\ C9IsTagged(BlockText(block), <<"h", "2">>)
           /\ block.style = "body"
           /\ op.style = "h2"
           /\ op.text = <<"a", "&", "b">>

\* C10: every hyperlink of an input page is carried by the same page of the
\* document that parse followed by build produces: the same URI, or the
\* bookmark of the same target page.
C10_LinksCarried ==
    pc = "done" =>
        \A i \in 1..Len(pdf) : \A n \in 1..Len(pdf[i].links) :
            LET link == pdf[i].links[n] IN
            \E a \in 1..Len(buffer[i].links) :
                \/ link.kind = 2 /\ buffer[i].links[a].kind = "URL"
                                 /\ buffer[i].links[a].uri = link.uri
                \/ link.kind \in {1, 4} /\ buffer[i].links[a].kind = "Rect"
                                        /\ buffer[i].links[a].dest = link.page


\* C11: a short label (at most 10 characters, no sentence indicator) is
\* PRESERVE in the list classify_blocks returns, whatever the service
\* replied: an answer of any content, a malformed one, or no answer in any
\* of the attempts.
C11ShortLabel(block) ==
    /\ Len(block.text) <= 10
    /\ Strip(block.text) # << >>
    /\ ~has_sentence(block.text)

C11_ShortLabelPreserved ==
    pc = "classified" =>
        /\ Len(classes) = Len(cblocks)
        /\ \A i \in 1..Len(cblocks) :
              C11ShortLabel(cblocks[i]) => classes[i] = "PRESERVE"


\* C12: when laying out or drawing one block fails, the block is skipped
\* and the rest goes on: build does not end with the exception, and when it
\* is done it has emitted every page of the layout.
C12_BlockFailureAbsorbed ==
    /\ pc # "build_failed"
    /\ pc = "done" => Len(buffer) = Len(layout)

\* C13: when the extraction of a page fails, parse emits an empty PageLayout
\* for it and goes on, so it returns one PageLayout per input page; parse
\* fails as a whole only when the input is not a PDF.
C13_PageFailureAbsorbed ==
    /\ pc # "extract_failed"
    /\ pc \notin {"parse", "parse_page", "parse_failed"} => Len(parsed) = Len(pdf)


\* C14: when the layout model cannot be loaded, the image cannot be decoded
\* or the detection raises, the page gets no protected zone, its blocks are
\* still extracted (header/footer filter and math heuristic, no zone
\* filter) and merged, and parse goes on to the following pages.
RECURSIVE C14SelfBefore(_)
C14SelfBefore(i) ==
    IF i = 1 THEN [model |-> "None", processor |-> "None"]
    ELSE load_model(C14SelfBefore(i - 1), pdf[i - 1].analysis)

C14Failed(i) ==
    LET self == load_model(C14SelfBefore(i), pdf[i].analysis) IN
    \/ self.model = "None"
    \/ self.processor = "None"
    \/ ~pdf[i].analysis.decode
    \/ ~pdf[i].analysis.infer

C14Shown(bs) == [j \in 1..Len(bs) |-> <<bs[j].text, bs[j].bbox, bs[j].style>>]

C14_AnalysisFailureDegrades ==
    /\ \A i \in 1..Len(parsed) :
          C14Failed(i) =>
            /\ parsed[i].protected_zones = << >>
            /\ C14Shown(parsed[i].text_blocks) =
                 C14Shown(_merge_text_blocks(
                     ExtractBlocks(pdf[i].blocks, pdf[i], << >>, base_size,
                                   0, i - 1, << >>).text_blocks))
    /\ pc \notin {"parse", "parse_page"} => Len(parsed) = Len(pdf)

C14_Witness ==
    /\ pc = "rewrite"
    /\ Len(pdf) = 2
    /\ C14Failed(1) /\ ~C14Failed(2)
    /\ ProtectedZones(AnalyzeOutput(pdf[1].layout_results)) # << >>
    /\ parsed[1].text_blocks #
         _merge_text_blocks(
             ExtractBlocks(pdf[1].blocks, pdf[1],
                           ProtectedZones(AnalyzeOutput(pdf[1].layout_results)),
                           base_size, 0, 0, << >>).text_blocks)
    /\ \E j \in 1..Len(pdf[1].blocks) :
          pdf[1].blocks[j].type = 0 /\ _is_math_block(pdf[1].blocks[j])
    /\ parsed[2].protected_zones # << >>


\* C15: in every PageLayout parse returns, every text block intersects each
\* protected zone of its page by at most half of the block's own area.
C15_BlockZoneOverlap ==
    \A i \in 1..Len(parsed) :
        \A b \in 1..Len(parsed[i].text_blocks) :
            \A z \in 1..Len(parsed[i].protected_zones) :
                2 * OverlapArea(parsed[i].text_blocks[b].bbox,
                                parsed[i].protected_zones[z])
                    <= Area(parsed[i].text_blocks[b].bbox)


\* C16: _render_text_block draws nothing for a block whose rotation is not
\* 0: the step that handles it leaves the canvas as it is (no mask, no
\* text, no change of the graphics state) and goes to the next block, and
\* no page emitted holds a mask or a text of such a block.
C16Step ==
    (pc = "text_block" /\ bk <= Len(layout[pi].text_blocks)
        /\ layout[pi].text_blocks[bk].rotation # 0)
    => /\ cur' = cur /\ gstate' = gstate /\ pagesize' = pagesize
       /\ out' = out /\ buffer' = buffer /\ fit' = fit
       /\ pc' = "text_block" /\ bk' = bk + 1

C16NoOp ==
    \A i \in 1..Len(out) : \A k \in 1..Len(out[i].ops) :
        out[i].ops[k].op \in {"rect", "drawOn"}
            => layout[i].text_blocks[out[i].ops[k].block].rotation = 0

C16_RotatedUntouched == []C16NoOp /\ [][C16Step]_vars

C16_Witness ==
    /\ pc = "text_block" /\ bk = 2
    /\ layout[pi].text_blocks[1].rotation # 0
    /\ layout[pi].text_blocks[1].rewritten_text # << >>
    /\ layout[pi].protected_zones # << >>
    /\ \A k \in 1..Len(cur.ops) : cur.ops[k].op = "drawImage"


\* C17: _is_math_block answers True for every block whose text holds one of
\* the operator glyphs <=, >=, element-of, sum, integral, partial, root,
\* product, :=, almost-equal, not-equal, whatever its length and its fonts.
C17Glyphs ==
    {<<"U+2264">>, <<"U+2265">>, <<"U+2208">>, <<"U+2211">>, <<"U+222B">>,
     <<"U+2202">>, <<"U+221A">>, <<"U+220F">>, <<":", "=">>, <<"U+2248">>,
     <<"U+2260">>}

C17_GlyphProtected ==
    (is_math # "none" /\ \E g \in C17Glyphs : Contains(SpanText(hblock), g))
        => is_math = "True"


\* C18: a block whose text holds a sentence indicator, or is longer than
\* 100 characters, is not protected by either text heuristic, whatever its
\* length, fonts and symbols: neither _is_math_block nor _is_pure_formula
\* answers True for it.
C18_SentenceOrLongRewritten ==
    LET text == Strip(SpanText(hblock)) IN
    (has_sentence(text) \/ Len(text) > 100)
        => (is_math # "True" /\ is_formula # "True")


\* C19: every mask painted is at least 5 points high, and a text is only
\* drawn for a block that has such a mask: a block whose mask is lower is
\* skipped, on pages with and without protected zones.
C19_MaskHeight ==
    \A i \in 1..Len(out) :
        /\ \A k \in OpsOf(i, "rect") :
              out[i].ops[k].rect[4] - out[i].ops[k].rect[2] >= 5
        /\ \A k \in OpsOf(i, "drawOn") :
              \E j \in OpsOf(i, "rect") :
                  /\ out[i].ops[j].block = out[i].ops[k].block
                  /\ out[i].ops[j].rect[4] - out[i].ops[j].rect[2] >= 5


\* C20: a page goes through background, masks, texts, links and closing
\* once each and in that order.  On the canvas this means that, on every
\* page emitted and on the open page, the background is the first thing
\* painted and no mask is painted after a text; that the open page has no
\* link before its blocks are done; and that pages are emitted one by one
\* while the page after the emitted ones is the one being rendered.
C20Ordered(ops) ==
    \A k \in 1..Len(ops) :
        /\ ops[k].op = "drawImage" => k = 1
        /\ ops[k].op = "rect" => \A j \in 1..(k - 1) : ops[j].op # "drawOn"

C20_PagePhases ==
    /\ \A i \in 1..Len(out) : C20Ordered(out[i].ops)
    /\ C20Ordered(cur.ops)
    /\ pc \in {"render_page", "text_block", "fit", "draw", "links"} => cur.links = << >>
    /\ pc \in {"text_block", "fit", "draw", "links", "show_page"} => Len(out) = pi - 1


\* C21: what a page shows does not depend on the order in which its blocks
\* are processed: no text drawn for a block is covered by the mask painted
\* later for another block.
C21_TextNotMasked ==
    \A i \in 1..Len(out) :
        \A j \in OpsOf(i, "drawOn") : \A k \in OpsOf(i, "rect") :
            (j < k /\ out[i].ops[j].block # out[i].ops[k].block)
                => OverlapArea(PaintedText(out[i].ops[j]),
                               Times20(out[i].ops[k].rect)) = 0


\* C22 as stated: every block that _merge_text_blocks produces by at least
\* one merge has a text of fewer than 500 characters, the newline
\* separators included.
C22Merged(k) == merged[k] \notin Range(blocks)

C22_Original ==
    pc = "merged" =>
        \A k \in 1..Len(merged) : C22Merged(k) => Len(merged[k].text) < 500

\* C22 amended: every block produced by at least one merge has a text of at
\* most 500 characters, the newline separators included: the two texts
\* joined by a merge have fewer than 500 characters together, and the
\* newline between them is not counted by the test.
C22_MergedCap ==
    pc = "merged" =>
        \A k \in 1..Len(merged) : C22Merged(k) => Len(merged[k].text) <= 500

C22_Witness ==
    /\ pc = "merged"
    /\ Len(blocks) = 3 /\ Len(merged) = 2
    /\ \E k \in 1..Len(merged) : C22Merged(k) /\ Len(merged[k].text) = 500


\* C23: the rotation _process_text_block gives a block is the one of 0, 90,
\* 180, 270 whose axis is nearest to the direction (dx, dy) of the block's
\* first line: 0 or 180 when |dx| > |dy| (dx positive or negative), 90 or
\* 270 when |dy| > |dx| (dy negative or positive).
C23_NearestAxis ==
    (pc = "processed" /\ hprocessed # << >>) =>
        LET dx == hblock.lines[1].dir[1]
            dy == hblock.lines[1].dir[2]
            rotation == hprocessed[1].rotation
        IN /\ Abs(dx) > Abs(dy) => rotation = (IF dx > 0 THEN 0 ELSE 180)
           /\ Abs(dy) > Abs(dx) => rotation = (IF dy < 0 THEN 90 ELSE 270)


\* C24: the ids of the text blocks of the pages parse has built, all pages
\* together, are pairwise distinct, filtered blocks and merged groups
\* included.
C24Ids ==
    Flatten([p \in 1..Len(parsed) |->
        [k \in 1..Len(parsed[p].text_blocks) |-> parsed[p].text_blocks[k].id]])
C24_DistinctIds ==
    \A i, j \in 1..Len(C24Ids) : C24Ids[i] = C24Ids[j] => i = j
\* a returned layout of two pages with blocks, where a block was filtered on
\* the way and two blocks were merged
C24_Witness ==
    /\ pc = "rewrite"
    /\ Len(parsed) = 2
    /\ \A p \in 1..2 : parsed[p].text_blocks # << >>
    /\ Len(C24Ids) >= 3
    /\ block_counter > Len(C24Ids)
    /\ \E p \in 1..2 :
          \E k \in 1..Len(pdf[p].blocks) :
              \/ pdf[p].blocks[k].type # 0
              \/ IsProtected(pdf[p].blocks[k].bbox, parsed[p].protected_zones)
              \/ _is_math_block(pdf[p].blocks[k])


\* C27: classify_blocks returns one entry per block it was given, each of
\* them REWRITE or PRESERVE, whatever the model replied and also when every
\* attempt failed.
C27_OneValidEntryPerBlock ==
    pc = "classified" =>
        /\ Len(classes) = Len(cblocks)
        /\ \A i \in 1..Len(classes) : classes[i] \in {"REWRITE", "PRESERVE"}


\* C28: _clip_mask_around_protected gives the same result for every order of
\* the protected zones: on every rendered page, the mask of each block is
\* the one it would get with the page's zones in any other order.
C28Orders(zones) ==
    {[i \in 1..Len(zones) |-> zones[f[i]]] :
        f \in {g \in [1..Len(zones) -> 1..Len(zones)] :
                  \A a, b \in 1..Len(zones) : g[a] = g[b] => a = b}}
C28_ZoneOrderIrrelevant ==
    \A i \in 1..Len(out) :
        \A k \in 1..Len(layout[i].text_blocks) :
            \A zones \in C28Orders(layout[i].protected_zones) :
                _clip_mask_around_protected(CandidateMask(layout[i].text_blocks[k]), zones)
                    = _clip_mask_around_protected(CandidateMask(layout[i].text_blocks[k]),
                                                  layout[i].protected_zones)


\* C29: _merge_text_blocks neither loses nor duplicates text.  The output is
\* the input in ascending top-y order (ties in input order) cut into
\* consecutive groups: each output text is the texts of its group joined by
\* newlines, each output bbox contains the bbox of every block of its group;
\* a non-empty input gives at least one block, and never more blocks than
\* were given.
C29Order ==
    CHOOSE f \in [1..Len(blocks) -> 1..Len(blocks)] :
        \A i, j \in 1..Len(blocks) :
            i < j => \/ blocks[f[i]].bbox[2] < blocks[f[j]].bbox[2]
                     \/ /\ blocks[f[i]].bbox[2] = blocks[f[j]].bbox[2]
                        /\ f[i] < f[j]
C29Sorted == [i \in 1..Len(blocks) |-> blocks[C29Order[i]]]
RECURSIVE C29JoinTexts(_)
C29JoinTexts(s) ==
    IF Len(s) = 1 THEN s[1].text
    ELSE C29JoinTexts(SubSeq(s, 1, Len(s) - 1)) \o <<"\n">> \o s[Len(s)].text
RECURSIVE C29Groups(_, _)
C29Groups(outs, ins) ==
    IF outs = << >> THEN ins = << >>
    ELSE \E n \in 1..Len(ins) :
            /\ Head(outs).text = C29JoinTexts(SubSeq(ins, 1, n))
            /\ \A k \in 1..n : Inside(ins[k].bbox, Head(outs).bbox)
            /\ C29Groups(Tail(outs), SubSeq(ins, n + 1, Len(ins)))
C29_NothingLostOrDuplicated ==
    pc = "merged" =>
        /\ blocks # << >> => Len(merged) >= 1
        /\ Len(merged) <= Len(blocks)
        /\ C29Groups(merged, C29Sorted)
\* three blocks given out of order, two of them with the same top edge, of
\* which two were merged
C29_Witness ==
    /\ pc = "merged"
    /\ Len(blocks) = 3
    /\ Len(merged) = 2
    /\ blocks[1].bbox[2] > blocks[3].bbox[2]
    /\ blocks[2].bbox[2] = blocks[3].bbox[2]
    /\ blocks[2] # blocks[3]
    /\ \E k \in 1..2 : Len(merged[k].text) > Len(blocks[1].text) + Len(blocks[3].text)


C26Running(client_id) ==
    {t \in 1..Len(tasks) :
        /\ tasks[t].client_id = client_id
        /\ tasks[t].ppc \in {"thread", "translate", "resume", "highlight"}}
=============================================================================
